---- MODULE Spec2Model ----
(***************************************************************************)
(* Schema orchestrator (core/src/db/schema.rs), table model                *)
(* (src/core/table.rs) and migration runner (database/src/migrator.rs)     *)
(* of rustavel.                                                            *)
(*                                                                         *)
(* Table names are sequences of one-character strings, because             *)
(* Schema::rename_prefix works on them with str::replace.  Migration and   *)
(* column names are plain strings.                                         *)
(***************************************************************************)
EXTENDS Integers, Sequences, FiniteSets, TLC

\* ------------------------------------------------------------------ bounds
\* run_migrations invocations on one database
MaxRuns == 3
\* create/table declarations made on one Schema instance
MaxDecls == 2
\* execute_migration calls made on one Schema instance
MaxExecs == 2
\* rename_prefix calls made on one Schema instance
MaxRenames == 1
\* builder calls made by one declaration closure
MaxCols == 2
\* statements executed by a declaration closure that is followed step by step
MaxStatements == 3
\* introspection and destructive calls made on one Schema instance
MaxQueries == 2

\* ------------------------------------------------------------------ names
\* the tracking table named by the bookkeeping SQL
MigrationsTable == <<"m", "i", "g", "r", "a", "t", "i", "o", "n", "s">>
\* a table of the database that no migration unit declares
LegacyTable == <<"l", "e", "g", "a", "c", "y">>
\* values of DB_PREFIX (the default is the empty prefix)
Prefixes == {<< >>, <<"a", "_">>}
\* arguments of rename_prefix
NewPrefixes == {<<"n", "_">>, <<"a", "_">>}
\* logical table names passed to create/table by callers of the Schema API
LogicalNames == {<<"t">>, <<"a", "_", "t">>}
\* values of DB_CONNECTION: the dialect of the generator and of the client
Generators == {"mysql", "sqlite"}
\* the database the client is connected to (CONFIG.database.database)
DatabaseName == <<"d", "b">>

\* ------------------------------------------------------------------ strings
\* str::replace(pat, to): every non-overlapping match of pat, left to right;
\* the empty pattern matches at every character boundary.
RECURSIVE Replace(_, _, _)
Replace(s, pat, to) ==
    IF pat = << >>
    THEN IF s = << >> THEN to ELSE to \o <<Head(s)>> \o Replace(Tail(s), pat, to)
    ELSE IF Len(s) < Len(pat) THEN s
    ELSE IF SubSeq(s, 1, Len(pat)) = pat
         THEN to \o Replace(SubSeq(s, Len(pat) + 1, Len(s)), pat, to)
         ELSE <<Head(s)>> \o Replace(Tail(s), pat, to)

StartsWith(s, p) == Len(s) >= Len(p) /\ SubSeq(s, 1, Len(p)) = p

\* ------------------------------------------------------------------ table model
NoOption == [kind |-> "None", n |-> 0]
Length(n) == [kind |-> "Length", n |-> n]
Index(index_name) == [kind |-> "Index", n |-> 0, index_name |-> index_name]

\* Table::column: the pending column of a builder, before any modifier
Column(name, data_type, option) ==
    [name |-> name, data_type |-> data_type, option |-> option,
     nullable |-> FALSE, unique |-> FALSE, index |-> FALSE,
     default |-> "None", comment |-> "", unsigned |-> FALSE,
     change |-> FALSE, collation |-> ""]

\* Table::foreign: the pending key of a builder, before any modifier
ForeignKey(name) ==
    [column_name |-> name, foreign_table |-> "", referenced_column |-> "",
     on_update |-> FALSE, on_delete |-> FALSE]

\* Table::new
NewTable(table_name) ==
    [name |-> table_name, columns |-> << >>, foreign_keys |-> << >>,
     comment |-> "", action |-> "None", drop_columns |-> << >>]

\* the Option<Table> of Schema.current
None == [some |-> FALSE]
Some(t) == [some |-> TRUE, table |-> t]

\* ------------------------------------------------------------------ migration units
\* what a declaration closure leaves in the table it is given
Closure(cols, fks, drops) == [columns |-> cols, foreign_keys |-> fks, drop_columns |-> drops]

CreateTodos ==
    [name |-> "m_2025_01_15_1945_create_todos",
     table |-> <<"t", "o", "d", "o", "s">>,
     closure |-> Closure(
        << Column("id", "DTId", NoOption),
           [Column("title", "DTString", Length(127)) EXCEPT !.index = TRUE, !.comment = "todo title"],
           [Column("done", "DTBoolean", NoOption) EXCEPT !.default = "Bool(false)", !.comment = "is task done"],
           Column("", "DTTimestamps", NoOption) >>,
        << >>, << >>)]

CreateUsers ==
    [name |-> "m_2025_01_15_create_users",
     table |-> <<"u", "s", "e", "r", "s">>,
     closure |-> Closure(
        << Column("id", "DTId", NoOption),
           [Column("name", "DTString", Length(127)) EXCEPT !.index = TRUE, !.comment = "user name"],
           [Column("email", "DTString", Length(127)) EXCEPT !.unique = TRUE, !.comment = "user email"],
           [Column("parent_id", "DTBigInteger", NoOption) EXCEPT !.unsigned = TRUE, !.comment = "parent id"],
           [Column("is_dark", "DTBoolean", NoOption) EXCEPT !.default = "Bool(true)", !.comment = "user theme control"],
           Column("deleted_at", "DTSoftDelete", NoOption),
           Column("", "DTTimestamps", NoOption) >>,
        << [ForeignKey("parent_id") EXCEPT !.foreign_table = "users", !.referenced_column = "id", !.on_delete = TRUE] >>,
        << >>)]

\* get_all_migrations: the ordered list of units (the two migration files of the repository)
Migrations == <<CreateTodos, CreateUsers>>

\* ------------------------------------------------------------------ state
VARIABLES
    db,             \* database: the names of the tables that exist
    rows,           \* database: the rows of the tracking table, in insertion order
    cfgPrefix,      \* CONFIG.database.prefix
    prefix,         \* Schema.prefix
    tables,         \* Schema.tables: the registry, keyed by logical name
    current,        \* Schema.current
    sql,            \* statements this Schema has sent to its client, in order
    pc,             \* position of run_migrations ("api": no runner, the Schema API is called directly)
    up, passive, fresh,                     \* arguments of run_migrations
    batch, migrated_count, migration_list,  \* locals of run_migrations
    i,              \* index in Migrations of the unit the for loop is at
    ret,            \* value returned by the last operation that finished
    report,         \* titles printed after the loop of run_migrations
    log,            \* operations invoked by run_migrations in this run, with their outcome
    runs,           \* run_migrations invocations so far
    prev,           \* arguments and result of the previous run
    dbStart,        \* the tables that existed when the operation in progress (or last finished) began
    rowsStart,      \* the tracking rows when the run in progress (or last finished) began
    prefixStart,    \* Schema.prefix when the last rename_prefix began
    newPrefix,      \* the argument of the last rename_prefix
    last,           \* Schema API: name of the last call
    declared,       \* Schema API: create or table has been invoked on this instance
    contrib,        \* Schema API: columns handed over by the declarations of each logical name, in order
    nDecl, nExec, nRen,     \* Schema API: calls made so far
    generator,      \* Schema.generator: the dialect selected by CONFIG.database.connection
    debug,          \* Schema.debug (CONFIG.app.debug)
    errors,         \* what the last introspection or destructive call handed to logger::error
    answer,         \* what the client answered to the query of that call
    result,         \* the value that call returned
    pending,        \* the Table handed to the declaration closure that is followed step by step
    declName,       \* the logical name given to the create/table call of that closure
    calls,          \* the statements the closure has executed on its table, in order
    flagged,        \* the columns and keys the last Table::validate printed as invalid
    before,         \* the table as it was when the last Table::validate began
    body,           \* the body, foot and post vectors assembled by the last execute_migration
    items,          \* Route.items: the routes collected so far
    ctx_stack,      \* Route.ctx_stack: the contexts of the groups whose closure is running
    built,          \* what Route::build returned
    dsl             \* the calls made on the Route, in order

vars == <<db, rows, cfgPrefix, prefix, tables, current, sql, pc, up, passive, fresh,
          batch, migrated_count, migration_list, i, ret, report, log, runs, prev,
          dbStart, rowsStart, prefixStart, newPrefix, last, declared, contrib, nDecl, nExec, nRen,
          generator, debug, errors, answer, result, pending, declName, calls, flagged, before, body,
          items, ctx_stack, built, dsl>>

runnerVars == <<pc, up, passive, fresh, batch, migrated_count, migration_list, i,
                report, log, runs, prev>>
apiVars == <<last, declared, contrib, nDecl, nExec, nRen, prefixStart, newPrefix>>
clientVars == <<errors, answer, result>>
closureVars == <<pending, declName, calls, flagged, before>>
routeVars == <<items, ctx_stack, built, dsl>>

\* the configuration of the process, and what only the calls followed one by one write
ExtFrame ==
    /\ UNCHANGED <<generator, debug>>
    /\ UNCHANGED clientVars
    /\ UNCHANGED closureVars
    /\ UNCHANGED routeVars

\* ------------------------------------------------------------------ database
Stmt(kind, table, to) == [kind |-> kind, table |-> table, to |-> to]

\* whether the engine accepts the statement in database d
Accepts(d, st) ==
    CASE st.kind = "CREATE TABLE" -> st.table \notin d
      [] st.kind = "ALTER TABLE"  -> st.table \in d
      [] st.kind = "DROP TABLE"   -> st.table \in d
      [] st.kind = "RENAME TABLE" -> st.table \in d /\ st.to \notin d
      [] st.kind = "INSERT"       -> MigrationsTable \in d
      [] st.kind = "SELECT"       -> st.table = << >> \/ st.table \in d
      [] st.kind = "DROP DATABASE" -> TRUE
      [] st.kind = "--"           -> TRUE
      [] OTHER -> FALSE

\* the tables after the engine has executed an accepted statement
Applied(d, st) ==
    CASE st.kind = "CREATE TABLE" -> d \cup {st.table}
      [] st.kind = "DROP TABLE"   -> d \ {st.table}
      [] st.kind = "RENAME TABLE" -> (d \ {st.table}) \cup {st.to}
      [] st.kind = "DROP DATABASE" -> IF st.table = DatabaseName THEN {} ELSE d
      [] OTHER -> d

\* ------------------------------------------------------------------ generators
\* SqlGenerator::table_sql: CREATE TABLE or ALTER TABLE by the table's action
table_sql(table) ==
    CASE table.action = "Create" -> Stmt("CREATE TABLE", table.name, << >>)
      [] table.action = "Alter"  -> Stmt("ALTER TABLE", table.name, << >>)
      [] OTHER -> Stmt("", table.name, << >>)

\* SqlGenerator::drop_table
drop_table_sql(table_name) == Stmt("DROP TABLE", table_name, << >>)

\* SqlGenerator::rename
rename_sql(old_table_name, new_table_name) == Stmt("RENAME TABLE", old_table_name, new_table_name)

\* SqliteGenerator::drop_all_tables: a SELECT whose rows are the text of DROP statements
drop_all_tables_sql == Stmt("SELECT", << >>, << >>)

\* SqlGenerator::get_tables
get_tables_sql == Stmt("SELECT", << >>, << >>)

\* SqliteGenerator::drop_all_views: a SELECT whose rows are the text of DROP statements
drop_all_views_sql == Stmt("SELECT", << >>, << >>)

\* SqlGenerator::drop_database_if_exists: a statement in MySQL, a comment in SQLite
drop_database_if_exists_sql(db_name) ==
    IF generator = "mysql" THEN Stmt("DROP DATABASE", db_name, << >>)
    ELSE Stmt("--", db_name, << >>)

\* SqlGenerator::get_views, get_column_listing, get_foreign_keys: catalog queries
get_views_sql == Stmt("SELECT", << >>, << >>)
get_column_listing_sql(table_name) == Stmt("SELECT", << >>, table_name)
get_foreign_keys_sql(table_name) == Stmt("SELECT", << >>, table_name)

\* MySqlGenerator::get_ran, get_next_batch_number, add_migrated_table
get_ran_sql == Stmt("SELECT", MigrationsTable, << >>)
get_next_batch_number_sql == Stmt("SELECT", MigrationsTable, << >>)
add_migrated_table_sql == Stmt("INSERT", MigrationsTable, << >>)

\* ------------------------------------------------------------------ column and key clauses
\* The text of a column clause, by its parts; the empty string is NoColumnSql.
NoColumnSql ==
    [prefix |-> "", name |-> "", type |-> "", len |-> 0, unsigned |-> FALSE,
     null |-> "", auto_increment |-> FALSE, def |-> "", comment |-> "", collate |-> ""]

\* The text of a footer or post clause, by its parts; the empty string is NoClause.
NoClause == [kind |-> "", table |-> << >>, column |-> "", auto_increment |-> FALSE]

Clause(kind, table_name, column_name) ==
    [NoClause EXCEPT !.kind = kind, !.table = table_name, !.column = column_name]

\* Column::is_string_type
is_string_type(column) ==
    column.data_type \in {"DTString", "DTLongText", "DTMediumText", "DTTinyText", "DTJson"}

\* MySqlGenerator::column: the DEFAULT text of a default value
mysql_default(d) ==
    CASE d = "Null" -> "DEFAULT NULL"
      [] d = "String(s)" -> " DEFAULT 's' "
      [] d = "JsonArray" -> "DEFAULT json_array()"
      [] d = "CurrenTimestamp" -> "DEFAULT current_timestamp()"
      [] d = "Bool(true)" -> "DEFAULT b'1'"
      [] d = "Bool(false)" -> "DEFAULT  b'0'"
      [] d = "Int(1)" -> "DEFAULT '1'"
      [] OTHER -> ""

\* MySqlGenerator::column: the types whose clause takes UNSIGNED
MySqlUnsignedTypes ==
    [DTTinyInteger |-> "TINYINT", DTInteger |-> "INT", DTSmallInteger |-> "SMALLINT",
     DTMediumInteger |-> "MEDIUMINT", DTBigInteger |-> "BIGINT(20)", DTFloat |-> "FLOAT",
     DTDouble |-> "DOUBLE", DTDecimal |-> "DECIMAL(20,6)"]

\* MySqlGenerator::column: the types whose clause is name, type, nullability, default
MySqlPlainTypes ==
    [DTBoolean |-> "BIT(1)", DTString |-> "VARCHAR", DTText |-> "TEXT", DTTinyText |-> "TINYTEXT",
     DTMediumText |-> "MEDIUMTEXT", DTLongText |-> "LONGTEXT", DTJson |-> "LONGTEXT",
     DTDate |-> "DATE", DTDateTime |-> "DATETIME", DTTime |-> "TIME", DTTimestamp |-> "TIMESTAMP",
     DTEnum |-> "ENUM('')", DTSet |-> "SET('')"]

\* MySqlGenerator::column: (column_sql, footer_sql, post_sql)
mysql_column(column, table_name, action) ==
    LET t == column.data_type
        nullable == IF column.nullable THEN "NULL" ELSE "NOT NULL"
        def == mysql_default(column.default)
        typed ==
            CASE t = "DTId" ->
                    [NoColumnSql EXCEPT !.name = "id", !.type = "BIGINT(20)", !.unsigned = TRUE,
                                        !.null = "NOT NULL", !.auto_increment = TRUE]
              [] t \in DOMAIN MySqlUnsignedTypes ->
                    [NoColumnSql EXCEPT !.name = column.name, !.type = MySqlUnsignedTypes[t],
                                        !.unsigned = column.unsigned, !.null = nullable, !.def = def]
              [] t \in DOMAIN MySqlPlainTypes ->
                    [NoColumnSql EXCEPT !.name = column.name, !.type = MySqlPlainTypes[t],
                                        !.len = IF t # "DTString" THEN 0
                                                ELSE IF column.option.kind = "Length"
                                                     THEN column.option.n ELSE 127,
                                        !.null = nullable, !.def = def]
              [] t = "DTTimestamps" ->
                    [NoColumnSql EXCEPT !.name = "created_at, updated_at", !.type = "TIMESTAMP",
                                        !.null = "NULL", !.def = "DEFAULT NULL"]
              [] t = "DTSoftDelete" ->
                    [NoColumnSql EXCEPT !.name = "deleted_at", !.type = "TIMESTAMP",
                                        !.null = "NULL", !.def = "DEFAULT NULL"]
              [] t = "DTMorph" ->
                    [NoColumnSql EXCEPT !.name = column.name,
                                        !.type = "VARCHAR(255), BIGINT(20) UNSIGNED",
                                        !.null = nullable, !.def = def]
              [] OTHER -> NoColumnSql
        typed_footer ==
            CASE t = "DTId" -> Clause("PRIMARY KEY", << >>, "id")
              [] t = "DTJson" -> Clause("CONSTRAINT CHECK", << >>, column.name)
              [] t = "DTMorph" -> Clause("INDEX", << >>, column.name)
              [] OTHER -> NoClause
        collation == IF column.collation = "" /\ t = "DTJson" THEN "utf8mb4_bin"
                     ELSE column.collation
        commented == IF column.comment # "" THEN [typed EXCEPT !.comment = column.comment]
                     ELSE typed
        collated == IF collation # "" /\ is_string_type(column)
                    THEN [commented EXCEPT !.collate = collation] ELSE commented
        indexed == IF column.index THEN Clause("INDEX", << >>, column.name) ELSE typed_footer
        footer_sql == IF column.unique THEN Clause("UNIQUE INDEX", table_name, column.name)
                      ELSE indexed
        column_sql == IF action = "Alter"
                      THEN [collated EXCEPT !.prefix = IF column.change THEN "CHANGE COLUMN"
                                                       ELSE "ADD COLUMN"]
                      ELSE collated
    IN  [column_sql |-> column_sql, footer_sql |-> footer_sql, post_sql |-> NoClause]

\* SqliteGenerator::column: the DEFAULT text of a default value
sqlite_default(d) ==
    CASE d = "String(s)" -> "DEFAULT 's'"
      [] d = "JsonArray" -> "DEFAULT '[]'"
      [] d = "CurrenTimestamp" -> "DEFAULT CURRENT_TIMESTAMP"
      [] d = "Bool(true)" -> "DEFAULT 1"
      [] d = "Bool(false)" -> "DEFAULT 0"
      [] d = "Int(1)" -> "DEFAULT 1"
      [] OTHER -> ""

\* SqliteGenerator::column: the types whose clause is name, type, nullability, default
SqliteTypes ==
    [DTBoolean |-> "boolean", DTTinyInteger |-> "integer", DTInteger |-> "integer",
     DTSmallInteger |-> "integer", DTMediumInteger |-> "integer", DTBigInteger |-> "integer",
     DTFloat |-> "float", DTDouble |-> "float", DTDecimal |-> "decimal(20,6)",
     DTString |-> "varchar", DTText |-> "text", DTTinyText |-> "text", DTMediumText |-> "text",
     DTLongText |-> "text", DTJson |-> "json", DTDate |-> "datetime", DTDateTime |-> "datetime",
     DTTime |-> "datetime", DTTimestamp |-> "datetime", DTEnum |-> "varchar", DTSet |-> "varchar"]

\* SqliteGenerator::column: (column_sql, footer_sql, post_sql)
sqlite_column(column, table_name, action) ==
    LET t == column.data_type
        nullable == IF column.nullable THEN "" ELSE "NOT NULL"
        def == sqlite_default(column.default)
        typed ==
            CASE t = "DTId" ->
                    [NoColumnSql EXCEPT !.name = "id", !.type = "integer", !.null = "NOT NULL"]
              [] t \in DOMAIN SqliteTypes ->
                    [NoColumnSql EXCEPT !.name = column.name, !.type = SqliteTypes[t],
                                        !.len = IF t # "DTString" THEN 0
                                                ELSE IF column.option.kind = "Length"
                                                     THEN column.option.n ELSE 255,
                                        !.null = nullable, !.def = def]
              [] t = "DTTimestamps" ->
                    [NoColumnSql EXCEPT !.name = "created_at, updated_at", !.type = "datetime"]
              [] t = "DTSoftDelete" ->
                    [NoColumnSql EXCEPT !.name = "deleted_at", !.type = "datetime"]
              [] t = "DTMorph" ->
                    [NoColumnSql EXCEPT !.name = column.name, !.type = "varchar(255), integer",
                                        !.null = nullable, !.def = def]
              [] OTHER -> NoColumnSql
        footer_sql == IF t = "DTId"
                      THEN [Clause("PRIMARY KEY", << >>, "id") EXCEPT !.auto_increment = TRUE]
                      ELSE NoClause
        post_sql == IF column.unique THEN Clause("CREATE UNIQUE INDEX", table_name, column.name)
                    ELSE IF column.index THEN Clause("CREATE INDEX", table_name, column.name)
                    ELSE IF t = "DTMorph" THEN Clause("CREATE INDEX", table_name, column.name)
                    ELSE NoClause
        column_sql == IF action = "Alter" /\ ~column.change
                      THEN [typed EXCEPT !.prefix = "ADD COLUMN"] ELSE typed
    IN  [column_sql |-> column_sql, footer_sql |-> footer_sql, post_sql |-> post_sql]

\* MySqlGenerator::foreign_key: the text matched on on_update is "ON DELETE CASCADE",
\* the text matched on on_delete is "ON UPDATE CASCADE"
mysql_foreign_key(key, table_name, action) ==
    [kind |-> "FOREIGN KEY", prefix |-> IF action = "Alter" THEN "ADD" ELSE "",
     table |-> table_name, column |-> key.column_name,
     foreign_table |-> key.foreign_table, referenced_column |-> key.referenced_column,
     on_delete_cascade |-> key.on_update,
     on_update_cascade |-> key.on_delete]

\* SqliteGenerator::foreign_key: table name and action are not used, and the
\* referenced column printed is key.column_name
sqlite_foreign_key(key, table_name, action) ==
    [kind |-> "FOREIGN KEY", prefix |-> "",
     table |-> << >>, column |-> key.column_name,
     foreign_table |-> key.foreign_table, referenced_column |-> key.column_name,
     on_delete_cascade |-> key.on_delete,
     on_update_cascade |-> key.on_update]

\* SqlGenerator::drop_column: a clause in MySQL, a comment in SQLite
generator_drop_column(column_name) ==
    [NoColumnSql EXCEPT !.prefix = IF generator = "mysql" THEN "DROP COLUMN" ELSE "--",
                        !.name = column_name]

\* self.generator.column and self.generator.foreign_key: the dialect of this Schema
generator_column(column, table_name, action) ==
    IF generator = "mysql" THEN mysql_column(column, table_name, action)
    ELSE sqlite_column(column, table_name, action)

generator_foreign_key(key, table_name, action) ==
    IF generator = "mysql" THEN mysql_foreign_key(key, table_name, action)
    ELSE sqlite_foreign_key(key, table_name, action)

NoBody == [body |-> << >>, foot |-> << >>, post |-> << >>]

\* Schema::execute_migration, the three loops: a column clause for every column, a drop
\* clause for every drop_columns entry, the footers and posts that are not empty, and a
\* constraint clause for every foreign key
MigrationBody(table) ==
    LET frag == [k \in 1..Len(table.columns) |->
                    generator_column(table.columns[k], table.name, table.action)]
        NotEmpty(c) == c.kind # ""
    IN  [body |-> [k \in 1..Len(frag) |-> frag[k].column_sql]
                  \o [k \in 1..Len(table.drop_columns) |->
                         generator_drop_column(table.drop_columns[k])],
         foot |-> SelectSeq([k \in 1..Len(frag) |-> frag[k].footer_sql], NotEmpty)
                  \o [k \in 1..Len(table.foreign_keys) |->
                         generator_foreign_key(table.foreign_keys[k], table.name, table.action)],
         post |-> SelectSeq([k \in 1..Len(frag) |-> frag[k].post_sql], NotEmpty)]

\* ------------------------------------------------------------------ Schema
\* Schema::fix_table_name
fix_table_name(table_name) == prefix \o table_name

\* the Table that create/table build: named with CONFIG.database.prefix, filled by the closure
BuiltTable(name, action, closure) ==
    [NewTable(cfgPrefix \o name) EXCEPT
        !.action = action,
        !.columns = closure.columns,
        !.foreign_keys = closure.foreign_keys,
        !.drop_columns = closure.drop_columns]

\* a known name gets its entry replaced by the new table
RegisteredOverwriting(reg, name, table) ==
    IF name \in DOMAIN reg
    THEN [reg EXCEPT ![name] = table]
    ELSE reg @@ (name :> table)

\* the registry after create/table: a known name gets the new columns appended,
\* an unknown name gets the table inserted
Registered(reg, name, table) ==
    IF name \in DOMAIN reg
    THEN [reg EXCEPT ![name].columns = @ \o table.columns]
    ELSE reg @@ (name :> table)

\* current becomes the entry of the registry, with the columns accumulated
CurrentFromRegistry(reg, name, table) == Some(reg[name])

\* self.current = Some(table): the table the closure has just filled
Current(reg, name, table) == Some(table)

\* Schema::create and Schema::table (action "Create" and "Alter")
Declare(name, action, closure) ==
    LET table == BuiltTable(name, action, closure) IN
    /\ tables' = Registered(tables, name, table)
    /\ current' = Current(Registered(tables, name, table), name, table)

\* Schema::new: empty registry, no current table, the configured prefix
SchemaNew ==
    /\ prefix' = cfgPrefix
    /\ tables' = << >>
    /\ current' = None
    /\ sql' = << >>

\* Schema::execute_migration takes &self (current, the registry and the prefix are
\* left as they are): without a current table nothing is sent; otherwise the
\* clauses are assembled and the statement made of them by table_sql is sent to the
\* client, which executes it or fails
execute_migration(ok) ==
    /\ IF current.some
       THEN LET st == table_sql(current.table) IN
            /\ ok => Accepts(db, st)
            /\ body' = MigrationBody(current.table)
            /\ sql' = Append(sql, st)
            /\ db' = IF ok THEN Applied(db, st) ELSE db
       ELSE /\ ~ok
            /\ UNCHANGED <<sql, db, body>>
    /\ UNCHANGED <<current, tables, prefix>>

\* the branch without a current table returns Ok
ExecuteResultOkWithoutTable(ok) ==
    IF ok \/ ~current.some THEN "ok" ELSE "err"

\* the value execute_migration returns
ExecuteResult(ok) ==
    IF ~current.some THEN "InvalidTable" ELSE IF ok THEN "ok" ELSE "err"

\* the next batch number: one more than the largest batch recorded, 1 on an empty table
NextBatch(rs) ==
    IF rs = << >> THEN 1
    ELSE 1 + (CHOOSE b \in {rs[k].batch : k \in 1..Len(rs)} :
                 \A k \in 1..Len(rs) : rs[k].batch <= b)

\* the migration names recorded, in row order
Listing(rs) == [k \in 1..Len(rs) |-> rs[k].migration]

Contains(list, x) == \E k \in 1..Len(list) : list[k] = x

\* Schema::create_migration_table: the statement that creates the tracking table
create_migration_table_sql == Stmt("CREATE TABLE", MigrationsTable, << >>)

\* the tracking table has a unique migration column
InsertAccepted(rs, name) == ~Contains(Listing(rs), name)


\* ------------------------------------------------------------------ run_migrations
Op(op, unit, ok, b) == [op |-> op, unit |-> unit, ok |-> ok, batch |-> b]

NoRun == [up |-> FALSE, passive |-> FALSE, fresh |-> FALSE, ret |-> "none"]

\* the Err is dropped and the loop goes on
ReturnErrIgnored ==
    /\ pc' = "loop"
    /\ ret' = ret

\* `?` on an Err: run_migrations returns the error at once
ReturnErr ==
    /\ pc' = "done"
    /\ ret' = "err"

\* entry of run_migrations up to Schema::new, and the branch on passive and fresh
RunMigrations(u, p, f, ok) ==
    /\ pc \in {"idle", "done"}
    /\ runs < MaxRuns
    /\ runs' = runs + 1
    /\ prev' = IF pc = "done"
               THEN [up |-> up, passive |-> passive, fresh |-> fresh, ret |-> ret]
               ELSE NoRun
    /\ up' = u /\ passive' = p /\ fresh' = f
    /\ batch' = 1
    /\ migrated_count' = 0
    /\ migration_list' = << >>
    /\ i' = 1
    /\ report' = << >>
    /\ log' = << >>
    /\ dbStart' = db
    /\ rowsStart' = rows
    /\ SchemaNew
    /\ IF ok
       THEN /\ pc' = IF ~p THEN (IF f THEN "drop_all_tables" ELSE "repository_exists")
                     ELSE "loop"
            /\ ret' = "none"
       ELSE ReturnErr
    /\ UNCHANGED <<db, rows, cfgPrefix, body>>
    /\ UNCHANGED apiVars
    /\ ExtFrame

\* what every step of a run leaves alone
RunFrame ==
    /\ UNCHANGED <<cfgPrefix, up, passive, fresh, runs, prev, dbStart, rowsStart>>
    /\ UNCHANGED apiVars
    /\ ExtFrame

\* what every step but execute_migration leaves alone
StepFrame ==
    /\ RunFrame
    /\ UNCHANGED body

\* schema.drop_all_tables().await?
DropAllTables(ok) ==
    /\ pc = "drop_all_tables"
    /\ sql' = Append(sql, drop_all_tables_sql)
    /\ log' = Append(log, Op("drop_all_tables", 0, ok, 0))
    /\ db' = IF ok THEN Applied(db, drop_all_tables_sql) ELSE db
    /\ IF ok THEN pc' = "repository_exists" /\ ret' = ret ELSE ReturnErr
    /\ UNCHANGED <<rows, prefix, tables, current, batch, migrated_count, migration_list, i, report>>
    /\ StepFrame

\* schema.repository_exists().await?
RepositoryExists(ok) ==
    /\ pc = "repository_exists"
    /\ sql' = Append(sql, Stmt("SELECT", << >>, << >>))
    /\ log' = Append(log, Op("repository_exists", 0, ok, 0))
    /\ IF ok
       THEN /\ pc' = IF MigrationsTable \in db THEN "get_next_batch_number"
                     ELSE "create_migration_table"
            /\ ret' = ret
       ELSE ReturnErr
    /\ UNCHANGED <<db, rows, prefix, tables, current, batch, migrated_count, migration_list, i, report>>
    /\ StepFrame

\* schema.create_migration_table().await?
CreateMigrationTable(ok) ==
    LET st == create_migration_table_sql IN
    /\ pc = "create_migration_table"
    /\ ok => Accepts(db, st)
    /\ sql' = Append(sql, st)
    /\ log' = Append(log, Op("create_migration_table", 0, ok, 0))
    /\ db' = IF ok THEN Applied(db, st) ELSE db
    /\ rows' = IF ok THEN << >> ELSE rows
    /\ IF ok THEN pc' = "get_next_batch_number" /\ ret' = ret ELSE ReturnErr
    /\ UNCHANGED <<prefix, tables, current, batch, migrated_count, migration_list, i, report>>
    /\ StepFrame

\* batch = schema.get_next_batch_number().await?
GetNextBatchNumber(ok) ==
    /\ pc = "get_next_batch_number"
    /\ ok => Accepts(db, get_next_batch_number_sql)
    /\ sql' = Append(sql, get_next_batch_number_sql)
    /\ log' = Append(log, Op("get_next_batch_number", 0, ok, IF ok THEN NextBatch(rows) ELSE 0))
    /\ batch' = IF ok THEN NextBatch(rows) ELSE batch
    /\ IF ok THEN pc' = "get_migrations_listing" /\ ret' = ret ELSE ReturnErr
    /\ UNCHANGED <<db, rows, prefix, tables, current, migrated_count, migration_list, i, report>>
    /\ StepFrame

\* migration_list = schema.get_migrations_listing().await?
GetMigrationsListing(ok) ==
    /\ pc = "get_migrations_listing"
    /\ ok => Accepts(db, get_ran_sql)
    /\ sql' = Append(sql, get_ran_sql)
    /\ log' = Append(log, Op("get_migrations_listing", 0, ok, 0))
    /\ migration_list' = IF ok THEN Listing(rows) ELSE migration_list
    /\ IF ok THEN pc' = "loop" /\ ret' = ret ELSE ReturnErr
    /\ UNCHANGED <<db, rows, prefix, tables, current, batch, migrated_count, i, report>>
    /\ StepFrame

\* the applied list is not consulted
ToRunWhateverListed(unit) == ~passive

\* the test on the applied list is inverted
ToRunWhenListed(unit) == ~passive /\ Contains(migration_list, unit.name)

\* the test of line 45: the unit is run and recorded
ToRun(unit) == ~passive /\ ~Contains(migration_list, unit.name)

\* mig.up(&mut schema).await?  -- the units' up is schema.create(table, closure); Ok(())
\* Migration::up returns a Result: an Err (nothing declared) is propagated by `?`
Up(ok) ==
    /\ pc = "loop"
    /\ i <= Len(Migrations)
    /\ up
    /\ LET mig == Migrations[i] IN
       /\ log' = Append(log, Op("up", i, ok, 0))
       /\ IF ok
          THEN /\ Declare(mig.table, "Create", mig.closure)
               /\ IF ToRun(mig)
                  THEN pc' = "execute_migration" /\ i' = i
                  ELSE pc' = "loop" /\ i' = i + 1
               /\ ret' = ret
          ELSE /\ UNCHANGED <<tables, current, i>>
               /\ ReturnErr
    /\ UNCHANGED <<db, rows, sql, prefix, batch, migrated_count, migration_list, report>>
    /\ StepFrame

\* schema.execute_migration(mig.name(), ..).await?
ExecuteMigration(ok) ==
    /\ pc = "execute_migration"
    /\ log' = Append(log, Op("execute_migration", i, ok, 0))
    /\ execute_migration(ok)
    /\ IF ok THEN pc' = "add_migrated_table" /\ ret' = ret
       ELSE pc' = "done" /\ ret' = ExecuteResult(ok)
    /\ UNCHANGED <<rows, batch, migrated_count, migration_list, i, report>>
    /\ RunFrame

\* every row of a run gets a number of its own
TrackedRowRenumbered(name) == [migration |-> name, batch |-> batch + migrated_count]

\* the row add_migrated_table is asked to insert: the unit's name and the run's batch
TrackedRow(name) == [migration |-> name, batch |-> batch]

\* schema.add_migrated_table(mig.name(), batch).await?; migrated_count += 1
AddMigratedTable(ok) ==
    LET mig == Migrations[i] IN
    /\ pc = "add_migrated_table"
    /\ ok => (Accepts(db, add_migrated_table_sql) /\ InsertAccepted(rows, mig.name))
    /\ sql' = Append(sql, add_migrated_table_sql)
    /\ log' = Append(log, Op("add_migrated_table", i, ok, batch))
    /\ IF ok
       THEN /\ rows' = Append(rows, TrackedRow(mig.name))
            /\ migrated_count' = migrated_count + 1
            /\ i' = i + 1
            /\ pc' = "loop"
            /\ ret' = ret
       ELSE /\ UNCHANGED <<rows, migrated_count, i>>
            /\ ReturnErr
    /\ UNCHANGED <<db, prefix, tables, current, batch, migration_list, report>>
    /\ StepFrame

\* mig.down(&mut schema).await?  -- the units' down is schema.drop_table(table).await?
Down(ok) ==
    /\ pc = "loop"
    /\ i <= Len(Migrations)
    /\ ~up
    /\ LET st == drop_table_sql(fix_table_name(Migrations[i].table)) IN
       /\ ok => Accepts(db, st)
       /\ sql' = Append(sql, st)
       /\ log' = Append(log, Op("down", i, ok, 0))
       /\ db' = IF ok THEN Applied(db, st) ELSE db
       /\ IF ok THEN pc' = "loop" /\ i' = i + 1 /\ ret' = ret
          ELSE i' = i /\ ReturnErr
    /\ UNCHANGED <<rows, prefix, tables, current, batch, migrated_count, migration_list, report>>
    /\ StepFrame

\* after the loop: the title when nothing was migrated, and Ok(())
Finish ==
    /\ pc = "loop"
    /\ i > Len(Migrations)
    /\ report' = IF migrated_count = 0 THEN <<"Noting to migrate">> ELSE << >>
    /\ pc' = "done"
    /\ ret' = "ok"
    /\ UNCHANGED <<db, rows, sql, prefix, tables, current, batch, migrated_count,
                   migration_list, i, log>>
    /\ StepFrame

\* what Table::validate prints: the invalid foreign keys, then the invalid columns
NoFlags == [foreign_keys |-> << >>, columns |-> << >>]

\* what a client answers to a query, and what a call returns
Answer(ok, list, err) == [ok |-> ok, list |-> list, err |-> err]
Result(kind, list, err) == [kind |-> kind, list |-> list, err |-> err]

\* Route::new: no route, no open group, nothing built, no call made
RouteNew ==
    /\ items = << >>
    /\ ctx_stack = << >>
    /\ built = [kind |-> "none", names |-> << >>, error |-> << >>]
    /\ dsl = << >>

\* before any call followed one by one: nothing asked, nothing declared, nothing assembled
InitTools ==
    /\ RouteNew
    /\ errors = << >>
    /\ answer = Answer(TRUE, << >>, "")
    /\ result = Result("none", << >>, "")
    /\ pending = NewTable(<< >>)
    /\ declName = << >>
    /\ calls = << >>
    /\ flagged = NoFlags
    /\ before = NewTable(<< >>)
    /\ body = NoBody

\* the databases a run may start on
InitialDbs == {{}, {LegacyTable}}

Init ==
    /\ db \in InitialDbs
    /\ rows = << >>
    /\ cfgPrefix \in Prefixes
    /\ prefix = cfgPrefix
    /\ tables = << >>
    /\ current = None
    /\ sql = << >>
    /\ pc = "idle"
    /\ up = FALSE /\ passive = FALSE /\ fresh = FALSE
    /\ batch = 1
    /\ migrated_count = 0
    /\ migration_list = << >>
    /\ i = 1
    /\ ret = "none"
    /\ report = << >>
    /\ log = << >>
    /\ runs = 0
    /\ prev = NoRun
    /\ dbStart = db
    /\ rowsStart = rows
    /\ prefixStart = prefix
    /\ newPrefix = << >>
    /\ last = "none"
    /\ declared = FALSE
    /\ contrib = << >>
    /\ nDecl = 0 /\ nExec = 0 /\ nRen = 0
    /\ generator \in Generators
    /\ debug = FALSE
    /\ InitTools

Next ==
    \/ \E u, p, f, ok \in BOOLEAN : RunMigrations(u, p, f, ok)
    \/ \E ok \in BOOLEAN : DropAllTables(ok)
    \/ \E ok \in BOOLEAN : RepositoryExists(ok)
    \/ \E ok \in BOOLEAN : CreateMigrationTable(ok)
    \/ \E ok \in BOOLEAN : GetNextBatchNumber(ok)
    \/ \E ok \in BOOLEAN : GetMigrationsListing(ok)
    \/ \E ok \in BOOLEAN : Up(ok)
    \/ \E ok \in BOOLEAN : ExecuteMigration(ok)
    \/ \E ok \in BOOLEAN : AddMigratedTable(ok)
    \/ \E ok \in BOOLEAN : Down(ok)
    \/ Finish

Spec == Init /\ [][Next]_vars

\* ------------------------------------------------------------------ Schema API
\* the columns a declaration closure may commit: the first n builder calls of CreateTodos::up
ColumnPool == CreateTodos.closure.columns

Closures ==
    {Closure(SubSeq(ColumnPool, 1, IF n <= Len(ColumnPool) THEN n ELSE Len(ColumnPool)),
             << >>, << >>) : n \in 0..MaxCols}

\* what every direct call of the Schema API leaves alone
CallFrame ==
    /\ UNCHANGED <<rows, cfgPrefix, rowsStart>>
    /\ UNCHANGED runnerVars
    /\ ExtFrame

\* what every direct call but execute_migration leaves alone
ApiFrame ==
    /\ CallFrame
    /\ UNCHANGED body

\* a call of create (action "Create") or table (action "Alter") with a closure
DeclareCall(name, action, closure) ==
    /\ pc = "api"
    /\ nDecl < MaxDecls
    /\ nDecl' = nDecl + 1
    /\ Declare(name, action, closure)
    /\ declared' = TRUE
    /\ contrib' = IF name \in DOMAIN contrib
                  THEN [contrib EXCEPT ![name] = @ \o closure.columns]
                  ELSE contrib @@ (name :> closure.columns)
    /\ last' = IF action = "Create" THEN "create" ELSE "table"
    /\ ret' = "ok"
    /\ dbStart' = db
    /\ UNCHANGED <<db, sql, prefix, nExec, nRen, prefixStart, newPrefix>>
    /\ ApiFrame

\* schema.create(name, closure)
Create(name, closure) == DeclareCall(name, "Create", closure)

\* schema.table(name, closure)
Table(name, closure) == DeclareCall(name, "Alter", closure)

\* schema.execute_migration(..).await
ExecuteMigrationCall(ok) ==
    /\ pc = "api"
    /\ nExec < MaxExecs
    /\ nExec' = nExec + 1
    /\ execute_migration(ok)
    /\ ret' = ExecuteResult(ok)
    /\ last' = "execute_migration"
    /\ dbStart' = db
    /\ UNCHANGED <<declared, contrib, nDecl, nRen, prefixStart, newPrefix>>
    /\ CallFrame

InitSchema ==
    /\ db = {}
    /\ rows = << >>
    /\ cfgPrefix \in Prefixes
    /\ prefix = cfgPrefix
    /\ tables = << >>
    /\ current = None
    /\ sql = << >>
    /\ pc = "api"
    /\ up = FALSE /\ passive = FALSE /\ fresh = FALSE
    /\ batch = 1
    /\ migrated_count = 0
    /\ migration_list = << >>
    /\ i = 1
    /\ ret = "none"
    /\ report = << >>
    /\ log = << >>
    /\ runs = 0
    /\ prev = NoRun
    /\ dbStart = db
    /\ rowsStart = rows
    /\ prefixStart = prefix
    /\ newPrefix = << >>
    /\ last = "none"
    /\ declared = FALSE
    /\ contrib = << >>
    /\ nDecl = 0 /\ nExec = 0 /\ nRen = 0
    /\ generator \in Generators
    /\ debug = FALSE
    /\ InitTools

NextSchema ==
    \/ \E name \in LogicalNames, closure \in Closures : Create(name, closure)
    \/ \E name \in LogicalNames, closure \in Closures : Table(name, closure)
    \/ \E ok \in BOOLEAN : ExecuteMigrationCall(ok)

SpecSchema == InitSchema /\ [][NextSchema]_vars

\* ------------------------------------------------------------------ rename_prefix
\* the orders in which get_tables may list the tables of d
Orders(d) ==
    {o \in [1..Cardinality(d) -> d] : \A a, b \in 1..Cardinality(d) : o[a] = o[b] => a = b}

\* the for loop of rename_prefix over the listed tables; budget is the number of
\* statements the client still executes before it fails
RECURSIVE RenameLoop(_, _, _, _, _)
RenameLoop(d, list, old_prefix, new_prefix, budget) ==
    IF list = << >>
    THEN [db |-> d, ok |-> TRUE, sent |-> << >>]
    ELSE LET st == rename_sql(Head(list), Replace(Head(list), old_prefix, new_prefix)) IN
         IF budget = 0 \/ ~Accepts(d, st)
         THEN [db |-> d, ok |-> FALSE, sent |-> <<st>>]
         ELSE LET r == RenameLoop(Applied(d, st), Tail(list), old_prefix, new_prefix, budget - 1)
              IN  [r EXCEPT !.sent = <<st>> \o @]

\* schema.rename_prefix(new_prefix).await: get_tables, rename every table, then set the prefix
RenamePrefix(new_prefix, order, budget) ==
    /\ pc = "db"
    /\ nRen < MaxRenames
    /\ nRen' = nRen + 1
    /\ dbStart' = db
    /\ prefixStart' = prefix
    /\ newPrefix' = new_prefix
    /\ last' = "rename_prefix"
    /\ IF budget = 0
       THEN /\ sql' = Append(sql, get_tables_sql)
            /\ UNCHANGED <<db, prefix>>
            /\ ret' = "err"
       ELSE LET r == RenameLoop(db, order, prefix, new_prefix, budget - 1) IN
            /\ sql' = Append(sql, get_tables_sql) \o r.sent
            /\ db' = r.db
            /\ prefix' = IF r.ok THEN new_prefix ELSE prefix
            /\ ret' = IF r.ok THEN "ok" ELSE "err"
    /\ UNCHANGED <<tables, current, declared, contrib, nDecl, nExec>>
    /\ ApiFrame

InitRename ==
    /\ cfgPrefix \in Prefixes
    /\ prefix = cfgPrefix
    /\ db \in SUBSET ({cfgPrefix \o rest : rest \in {<<"t">>, <<"a", "_", "t">>}}
                       \cup {LegacyTable})
    /\ rows = << >>
    /\ tables = << >>
    /\ current = None
    /\ sql = << >>
    /\ pc = "db"
    /\ up = FALSE /\ passive = FALSE /\ fresh = FALSE
    /\ batch = 1
    /\ migrated_count = 0
    /\ migration_list = << >>
    /\ i = 1
    /\ ret = "none"
    /\ report = << >>
    /\ log = << >>
    /\ runs = 0
    /\ prev = NoRun
    /\ dbStart = db
    /\ rowsStart = rows
    /\ prefixStart = prefix
    /\ newPrefix = << >>
    /\ last = "none"
    /\ declared = FALSE
    /\ contrib = << >>
    /\ nDecl = 0 /\ nExec = 0 /\ nRen = 0
    /\ generator \in Generators
    /\ debug = FALSE
    /\ InitTools

NextRename ==
    \E new_prefix \in NewPrefixes, order \in Orders(db), budget \in 0..(Cardinality(db) + 1) :
        RenamePrefix(new_prefix, order, budget)

SpecRename == InitRename /\ [][NextRename]_vars

\* ------------------------------------------------------------------ introspection and destructive calls
\* no run_migrations invocation and no call of the Schema API so far
InitIdle ==
    /\ rows = << >>
    /\ tables = << >>
    /\ current = None
    /\ sql = << >>
    /\ up = FALSE /\ passive = FALSE /\ fresh = FALSE
    /\ batch = 1
    /\ migrated_count = 0
    /\ migration_list = << >>
    /\ i = 1
    /\ ret = "none"
    /\ report = << >>
    /\ log = << >>
    /\ runs = 0
    /\ prev = NoRun
    /\ rowsStart = rows
    /\ newPrefix = << >>
    /\ last = "none"
    /\ declared = FALSE
    /\ contrib = << >>
    /\ nDecl = 0 /\ nExec = 0 /\ nRen = 0

\* the error is handed to logger::error whatever the debug flag
LoggedAlways(e) == <<e>>

\* if self.debug { logger::error(..) }
Logged(e) == IF debug THEN <<e>> ELSE << >>

\* the match of a strict form, and map_err: Ok with the client's value, or Err(e)
StrictForm(ans) ==
    IF ans.ok THEN Result("Ok", ans.list, "") ELSE Result("Err", << >>, ans.err)

\* the match of a try_ form: the client's list, or Vec::new()
TryForm(ans) ==
    IF ans.ok THEN Result("Vec", ans.list, "") ELSE Result("Vec", << >>, "")

\* the match of a form that returns bool: true, or false
BoolForm(ans) ==
    IF ans.ok THEN Result("true", << >>, "") ELSE Result("false", << >>, "")

\* one call that sends one statement to the client and returns by one of the forms
Query(call, st, ans, res) ==
    /\ pc = "client"
    /\ Len(sql) < MaxQueries
    /\ ans.ok => Accepts(db, st)
    /\ sql' = Append(sql, st)
    /\ dbStart' = db
    /\ db' = IF ans.ok THEN Applied(db, st) ELSE db
    /\ answer' = ans
    /\ errors' = IF ans.ok THEN << >> ELSE Logged(ans.err)
    /\ result' = res
    /\ last' = call
    /\ UNCHANGED <<rows, cfgPrefix, rowsStart, prefix, tables, current, body, generator, debug,
                   declared, contrib, nDecl, nExec, nRen, prefixStart, newPrefix, ret>>
    /\ UNCHANGED runnerVars
    /\ UNCHANGED closureVars
    /\ UNCHANGED routeVars

GetTables(ans) == Query("get_tables", get_tables_sql, ans, StrictForm(ans))

TryGetTables(ans) == Query("try_get_tables", get_tables_sql, ans, TryForm(ans))

GetColumnListing(table_name, ans) ==
    Query("get_column_listing", get_column_listing_sql(fix_table_name(table_name)), ans,
          StrictForm(ans))

TryGetColumnListing(table_name, ans) ==
    Query("try_get_column_listing", get_column_listing_sql(fix_table_name(table_name)), ans,
          TryForm(ans))

GetViews(ans) == Query("get_views", get_views_sql, ans, StrictForm(ans))

TryGetViews(ans) == Query("try_get_views", get_views_sql, ans, TryForm(ans))

GetForeignKeys(table_name, ans) ==
    Query("get_foreign_keys", get_foreign_keys_sql(fix_table_name(table_name)), ans,
          StrictForm(ans))

TryGetForeignKeys(table_name, ans) ==
    Query("try_get_foreign_keys", get_foreign_keys_sql(fix_table_name(table_name)), ans,
          TryForm(ans))

DropTable(table_name, ans) ==
    Query("drop_table", drop_table_sql(fix_table_name(table_name)), ans, StrictForm(ans))

DropAllTablesCall(ans) == Query("drop_all_tables", drop_all_tables_sql, ans, StrictForm(ans))

DropAllViews(ans) == Query("drop_all_views", drop_all_views_sql, ans, StrictForm(ans))

DropDatabaseIfExists(db_name, ans) ==
    Query("drop_database_if_exists", drop_database_if_exists_sql(db_name), ans, BoolForm(ans))

\* DatabaseClient::fetch_numbers of the client of this Schema's dialect: the `?` on
\* fetch_all, the test on rows.is_empty, and row.get(0) of every row
fetch_numbers(ans) ==
    LET numbers == [k \in 1..Len(ans.list) |-> ans.list[k][1]] IN
    IF ~ans.ok THEN Result("Err", << >>, ans.err)
    ELSE IF generator = "mysql"
         THEN (IF ans.list # << >> THEN Result("Ok", << >>, "") ELSE Result("Ok", numbers, ""))
         ELSE (IF ans.list = << >> THEN Result("Ok", << >>, "") ELSE Result("Ok", numbers, ""))

\* client.fetch_numbers(sql).await: nothing is logged
FetchNumbers(ans) ==
    /\ pc = "client"
    /\ Len(sql) < MaxQueries
    /\ sql' = Append(sql, Stmt("SELECT", << >>, << >>))
    /\ dbStart' = db
    /\ answer' = ans
    /\ errors' = << >>
    /\ result' = fetch_numbers(ans)
    /\ last' = "fetch_numbers"
    /\ UNCHANGED <<db, rows, cfgPrefix, rowsStart, prefix, tables, current, body, generator,
                   debug, declared, contrib, nDecl, nExec, nRen, prefixStart, newPrefix, ret>>
    /\ UNCHANGED runnerVars
    /\ UNCHANGED closureVars
    /\ UNCHANGED routeVars

\* the answers of the client: a failure with one of its errors, Ok(()) for an executed
\* statement, the rows of the catalog for a query
Failures == {Answer(FALSE, << >>, e) : e \in {"Sqlx(PoolTimedOut)", "Sqlx(Database)"}}
Executed == {Answer(TRUE, << >>, "")} \cup Failures
TableLists == {Answer(TRUE, o, "") : o \in Orders(db)} \cup Failures
ViewLists == {Answer(TRUE, l, "") : l \in {<< >>, <<"v">>}} \cup Failures
ColumnLists(table_name) ==
    {Answer(TRUE, l, "") :
        l \in IF fix_table_name(table_name) \in db THEN {<<"id">>, <<"id", "title">>}
              ELSE {<< >>}} \cup Failures
KeyLists(table_name) ==
    {Answer(TRUE, l, "") :
        l \in IF fix_table_name(table_name) \in db THEN {<< >>, <<"legacy_owner_foreign">>}
              ELSE {<< >>}} \cup Failures

InitClient ==
    /\ cfgPrefix \in Prefixes
    /\ prefix = cfgPrefix
    /\ db \in InitialDbs
    /\ dbStart = db
    /\ prefixStart = prefix
    /\ pc = "client"
    /\ generator \in Generators
    /\ debug \in BOOLEAN
    /\ InitIdle
    /\ InitTools

NextClient ==
    \/ \E ans \in TableLists : GetTables(ans)
    \/ \E ans \in TableLists : TryGetTables(ans)
    \/ \E t \in {LegacyTable} : \E ans \in ColumnLists(t) : GetColumnListing(t, ans)
    \/ \E t \in {LegacyTable} : \E ans \in ColumnLists(t) : TryGetColumnListing(t, ans)
    \/ \E ans \in ViewLists : GetViews(ans)
    \/ \E ans \in ViewLists : TryGetViews(ans)
    \/ \E t \in {LegacyTable} : \E ans \in KeyLists(t) : GetForeignKeys(t, ans)
    \/ \E t \in {LegacyTable} : \E ans \in KeyLists(t) : TryGetForeignKeys(t, ans)
    \/ \E t \in {LegacyTable} : \E ans \in Executed : DropTable(t, ans)
    \/ \E ans \in Executed : DropAllTablesCall(ans)
    \/ \E ans \in Executed : DropAllViews(ans)
    \/ \E d \in {DatabaseName} : \E ans \in Executed : DropDatabaseIfExists(d, ans)
    \/ \E ans \in {Answer(TRUE, l, "") : l \in {<< >>, <<<<7>>>>, <<<<7, 1>>, <<8, 2>>>>}}
                     \cup Failures : FetchNumbers(ans)

SpecClient == InitClient /\ [][NextClient]_vars

\* ------------------------------------------------------------------ declaration closures, statement by statement
\* the length above which a string column may be neither unique nor indexed
IndexableLen == 255

\* a modifier call chained on a builder, and a statement of a closure: a method of
\* Table with its arguments and the modifiers chained on what it returns
M(op, arg) == [op |-> op, arg |-> arg]
Statement(method, name, len, mods) == [method |-> method, name |-> name, len |-> len, mods |-> mods]

\* the builder constructors of Table: the pending column of each (morph and
\* nullable_morphs take two names: the pair <<name, index_name>>)
ColumnMethods ==
    {"id", "boolean", "string", "text", "json", "big_integer", "timestamps", "soft_delete",
     "morph", "nullable_morphs"}

PendingColumn(st) ==
    CASE st.method = "id" -> Column("id", "DTId", NoOption)
      [] st.method = "boolean" -> Column(st.name, "DTBoolean", NoOption)
      [] st.method = "string" -> Column(st.name, "DTString", Length(st.len))
      [] st.method = "text" -> Column(st.name, "DTText", NoOption)
      [] st.method = "json" -> Column(st.name, "DTJson", NoOption)
      [] st.method = "big_integer" -> Column(st.name, "DTBigInteger", NoOption)
      [] st.method = "timestamps" -> Column("", "DTTimestamps", NoOption)
      [] st.method = "soft_delete" -> Column("deleted_at", "DTSoftDelete", NoOption)
      [] st.method = "morph" -> Column(st.name[1], "DTMorph", Index(st.name[2]))
      [] st.method = "nullable_morphs" -> Column(st.name[1], "DTMorph", Index(st.name[2]))

\* the methods of ColumnBuilder
Modified(column, m) ==
    CASE m.op = "nullable" -> [column EXCEPT !.nullable = TRUE]
      [] m.op = "unique" -> [column EXCEPT !.unique = TRUE]
      [] m.op = "index" -> [column EXCEPT !.index = TRUE]
      [] m.op = "unsigned" -> [column EXCEPT !.unsigned = TRUE]
      [] m.op = "comment" -> [column EXCEPT !.comment = m.arg]
      [] m.op \in {"default_bool", "default_int", "default_str"} ->
            [column EXCEPT !.default = m.arg]
      [] m.op = "default_json_array" -> [column EXCEPT !.default = "JsonArray"]
      [] m.op = "default_null" -> [column EXCEPT !.default = "Null"]
      [] m.op = "default_current_timestamp" -> [column EXCEPT !.default = "CurrenTimestamp"]
      [] m.op = "change" -> [column EXCEPT !.change = TRUE]
      [] m.op = "collation" -> [column EXCEPT !.collation = m.arg]

\* the methods of ForeignKeyBuilder
ModifiedKey(key, m) ==
    CASE m.op = "reference" -> [key EXCEPT !.referenced_column = m.arg]
      [] m.op = "on" -> [key EXCEPT !.foreign_table = m.arg]
      [] m.op = "cascade_on_delete" -> [key EXCEPT !.on_delete = TRUE]
      [] m.op = "cascade_on_update" -> [key EXCEPT !.on_update = TRUE]

\* a chain of modifier calls, each applied to what the one before returned
RECURSIVE Chain(_, _)
Chain(column, mods) ==
    IF mods = << >> THEN column ELSE Chain(Modified(column, Head(mods)), Tail(mods))

RECURSIVE ChainKey(_, _)
ChainKey(key, mods) ==
    IF mods = << >> THEN key ELSE ChainKey(ModifiedKey(key, Head(mods)), Tail(mods))

\* the builder is dropped without pushing its column
CommittedNever(seq, x) == seq

\* Drop for ColumnBuilder and ForeignKeyBuilder: the pending value is pushed
Committed(seq, x) == Append(seq, x)

\* Column::validate
column_validate(column) ==
    CASE column.data_type = "DTNone" -> FALSE
      [] column.data_type \in {"DTString", "DTLongText", "DTMediumText", "DTTinyText", "DTJson"} ->
            /\ ~column.unsigned
            /\ IF column.option.kind = "Length"
               THEN /\ ~(column.option.n <= 0)
                    /\ ~(column.option.n > IndexableLen /\ (column.index \/ column.unique))
               ELSE ~(column.index \/ column.unique)
      [] column.data_type = "DTBoolean" -> ~column.unique
      [] OTHER -> TRUE

\* ForeignKey::validate
foreign_key_validate(key) ==
    ~(key.column_name = "" \/ key.referenced_column = "" \/ key.foreign_table = "")

\* the invalid columns are taken out of the table
ValidatedRejecting(table) ==
    [table EXCEPT !.columns = SelectSeq(@, column_validate)]

\* Table::validate: the table it returns
Validated(table) == table

\* Table::validate: what it prints
Printed(table) ==
    [foreign_keys |-> SelectSeq(table.foreign_keys, LAMBDA key : ~foreign_key_validate(key)),
     columns |-> SelectSeq(table.columns, LAMBDA column : ~column_validate(column))]

\* one more statement of the closure: it touches the table it is given only
ClosureStep(st) ==
    /\ pc = "closure"
    /\ Len(calls) < MaxStatements
    /\ calls' = Append(calls, st)
    /\ UNCHANGED <<db, rows, cfgPrefix, prefix, tables, current, sql, ret, dbStart, rowsStart,
                   body, generator, debug, declName>>
    /\ UNCHANGED runnerVars
    /\ UNCHANGED apiVars
    /\ UNCHANGED clientVars
    /\ UNCHANGED routeVars

\* table.<constructor>(..).<modifier>(..)...;
ColumnStatement(st) ==
    /\ ClosureStep(st)
    /\ pending' = [pending EXCEPT !.columns = Committed(@, Chain(PendingColumn(st), st.mods))]
    /\ UNCHANGED <<flagged, before>>

\* table.foreign(name).<modifier>(..)...;
ForeignStatement(st) ==
    /\ ClosureStep(st)
    /\ pending' = [pending EXCEPT !.foreign_keys = Committed(@, ChainKey(ForeignKey(st.name), st.mods))]
    /\ UNCHANGED <<flagged, before>>

\* table.drop_column(name);
DropColumn(name) ==
    /\ ClosureStep(Statement("drop_column", name, 0, << >>))
    /\ pending' = [pending EXCEPT !.drop_columns = Append(@, name)]
    /\ UNCHANGED <<flagged, before>>

\* table.table_comment(comment);
TableComment(comment) ==
    /\ ClosureStep(Statement("table_comment", comment, 0, << >>))
    /\ pending' = [pending EXCEPT !.comment = comment]
    /\ UNCHANGED <<flagged, before>>

\* table.validate();
Validate ==
    /\ ClosureStep(Statement("validate", "", 0, << >>))
    /\ before' = pending
    /\ flagged' = Printed(pending)
    /\ pending' = Validated(pending)

\* Schema::create and Schema::table after f(&mut table): the registry and current
ClosureReturns ==
    /\ pc = "closure"
    /\ pc' = "api"
    /\ tables' = Registered(tables, declName, pending)
    /\ current' = Current(Registered(tables, declName, pending), declName, pending)
    /\ nDecl' = nDecl + 1
    /\ declared' = TRUE
    /\ contrib' = IF declName \in DOMAIN contrib
                  THEN [contrib EXCEPT ![declName] = @ \o pending.columns]
                  ELSE contrib @@ (declName :> pending.columns)
    /\ last' = IF pending.action = "Create" THEN "create" ELSE "table"
    /\ ret' = "ok"
    /\ dbStart' = db
    /\ UNCHANGED <<db, rows, cfgPrefix, prefix, sql, rowsStart, body, generator, debug,
                   nExec, nRen, prefixStart, newPrefix>>
    /\ UNCHANGED <<up, passive, fresh, batch, migrated_count, migration_list, i, report, log,
                   runs, prev>>
    /\ UNCHANGED clientVars
    /\ UNCHANGED closureVars
    /\ UNCHANGED routeVars

\* the statements the closures are made of
ColumnStatements ==
    {Statement("string", "s", 300, <<M("unique", "")>>),
     Statement("text", "b", 0, <<M("unsigned", ""), M("nullable", "")>>),
     Statement("boolean", "f", 0, <<M("default_bool", "Bool(true)"), M("comment", "flag")>>),
     Statement("id", "", 0, << >>)}

ForeignStatements ==
    {Statement("foreign", "parent_id", 0,
               <<M("on", "users"), M("reference", "id"), M("cascade_on_delete", "")>>),
     Statement("foreign", "x", 0, << >>)}

\* Schema::create / Schema::table up to the call of the closure
InitTable ==
    /\ cfgPrefix \in Prefixes
    /\ prefix = cfgPrefix
    /\ generator \in Generators
    /\ debug = FALSE
    /\ declName = <<"t">>
    /\ \E action \in {"Create", "Alter"} :
          pending = [NewTable(cfgPrefix \o declName) EXCEPT !.action = action]
    /\ calls = << >>
    /\ flagged = NoFlags
    /\ before = NewTable(<< >>)
    /\ db = IF pending.action = "Alter" THEN {pending.name} ELSE {}
    /\ dbStart = db
    /\ prefixStart = prefix
    /\ pc = "closure"
    /\ errors = << >> /\ answer = Answer(TRUE, << >>, "") /\ result = Result("none", << >>, "")
    /\ body = NoBody
    /\ InitIdle
    /\ RouteNew

NextTable ==
    \/ \E st \in ColumnStatements : ColumnStatement(st)
    \/ \E st \in ForeignStatements : ForeignStatement(st)
    \/ DropColumn("x")
    \/ TableComment("t")
    \/ Validate
    \/ ClosureReturns
    \/ \E ok \in BOOLEAN : ExecuteMigrationCall(ok)

SpecTable == InitTable /\ [][NextTable]_vars

\* ------------------------------------------------------------------ one column, one key
\* ColumnDataType
DataTypes ==
    {"DTId", "DTBoolean", "DTTinyInteger", "DTInteger", "DTSmallInteger", "DTMediumInteger",
     "DTBigInteger", "DTFloat", "DTDouble", "DTDecimal", "DTString", "DTText", "DTTinyText",
     "DTMediumText", "DTLongText", "DTJson", "DTDate", "DTDateTime", "DTTime", "DTTimestamp",
     "DTTimestamps", "DTSoftDelete", "DTEnum", "DTSet", "DTMorph", "DTNone"}

\* the columns a table may hold (its fields are public): every type with no
\* option and with lengths at and around the limits, every combination of
\* unsigned, unique and index, and the id column with every combination of the
\* modifiers
Columns ==
    {[Column("c", t, o) EXCEPT !.unsigned = u, !.unique = q, !.index = x] :
        t \in DataTypes,
        o \in {NoOption, Length(0), Length(IndexableLen), Length(IndexableLen + 1)},
        u \in BOOLEAN, q \in BOOLEAN, x \in BOOLEAN}
    \cup
    {[Column("id", "DTId", NoOption) EXCEPT !.nullable = n, !.unique = q, !.index = x,
                                            !.comment = c, !.default = d] :
        n \in BOOLEAN, q \in BOOLEAN, x \in BOOLEAN, c \in {"", "key"}, d \in {"None", "Int(1)"}}

\* the keys a table may hold
Keys ==
    {[ForeignKey("c") EXCEPT !.foreign_table = ft, !.referenced_column = rc,
                             !.on_delete = d, !.on_update = u] :
        ft \in {"", "users"}, rc \in {"", "id"}, d \in BOOLEAN, u \in BOOLEAN}

\* a table of one column or of one key, with the default prefix, before validate,
\* the return of the closure and execute_migration
InitColumn ==
    /\ cfgPrefix = << >>
    /\ prefix = cfgPrefix
    /\ generator \in Generators
    /\ debug = FALSE
    /\ declName = <<"t">>
    /\ \E action \in {"Create", "Alter"} :
          \/ \E column \in Columns :
                pending = [NewTable(cfgPrefix \o declName) EXCEPT
                              !.action = action, !.columns = <<column>>]
          \/ \E key \in Keys :
                pending = [NewTable(cfgPrefix \o declName) EXCEPT
                              !.action = action, !.foreign_keys = <<key>>]
    /\ calls = << >>
    /\ flagged = NoFlags
    /\ before = NewTable(<< >>)
    /\ db = IF pending.action = "Alter" THEN {pending.name} ELSE {}
    /\ dbStart = db
    /\ prefixStart = prefix
    /\ pc = "closure"
    /\ errors = << >> /\ answer = Answer(TRUE, << >>, "") /\ result = Result("none", << >>, "")
    /\ body = NoBody
    /\ InitIdle
    /\ RouteNew

NextColumn ==
    \/ Validate
    \/ ClosureReturns
    \/ \E ok \in BOOLEAN : ExecuteMigrationCall(ok)

SpecColumn == InitColumn /\ [][NextColumn]_vars

\* ------------------------------------------------------------------ a declaration after rename_prefix
\* Schema::create / Schema::table up to the call of the closure, on a Schema that
\* may have gone through rename_prefix
OpenDeclaration(name, action) ==
    /\ pc = "db"
    /\ pc' = "closure"
    /\ declName' = name
    /\ pending' = [NewTable(cfgPrefix \o name) EXCEPT !.action = action]
    /\ calls' = << >>
    /\ flagged' = NoFlags
    /\ before' = NewTable(<< >>)
    /\ UNCHANGED <<db, rows, cfgPrefix, prefix, tables, current, sql, ret, dbStart, rowsStart,
                   body, generator, debug>>
    /\ UNCHANGED <<up, passive, fresh, batch, migrated_count, migration_list, i, report, log,
                   runs, prev>>
    /\ UNCHANGED apiVars
    /\ UNCHANGED clientVars
    /\ UNCHANGED routeVars

NextPrefix ==
    \/ \E new_prefix \in NewPrefixes, order \in Orders(db), budget \in 0..(Cardinality(db) + 1) :
          RenamePrefix(new_prefix, order, budget)
    \/ \E name \in LogicalNames, action \in {"Create", "Alter"} : OpenDeclaration(name, action)
    \/ ColumnStatement(Statement("id", "", 0, << >>))
    \/ ClosureReturns
    \/ \E ok \in BOOLEAN : ExecuteMigrationCall(ok)

SpecPrefix == InitRename /\ [][NextPrefix]_vars

\* ------------------------------------------------------------------ a name declared again
\* a Schema whose registry holds the table of an earlier declaration of the name,
\* at the call of the closure of the next declaration of that name
InitAgain ==
    /\ cfgPrefix \in Prefixes
    /\ prefix = cfgPrefix
    /\ generator \in Generators
    /\ debug = FALSE
    /\ declName = <<"t">>
    /\ \E closure \in Closures :
          /\ tables = (declName :> BuiltTable(declName, "Create", closure))
          /\ contrib = (declName :> closure.columns)
    /\ current = Some(tables[declName])
    /\ \E action \in {"Create", "Alter"} :
          pending = [NewTable(cfgPrefix \o declName) EXCEPT !.action = action]
    /\ calls = << >>
    /\ flagged = NoFlags
    /\ before = NewTable(<< >>)
    /\ db = IF pending.action = "Alter" THEN {pending.name} ELSE {}
    /\ dbStart = db
    /\ prefixStart = prefix
    /\ pc = "closure"
    /\ errors = << >> /\ answer = Answer(TRUE, << >>, "") /\ result = Result("none", << >>, "")
    /\ body = NoBody
    /\ rows = << >>
    /\ sql = << >>
    /\ up = FALSE /\ passive = FALSE /\ fresh = FALSE
    /\ batch = 1
    /\ migrated_count = 0
    /\ migration_list = << >>
    /\ i = 1
    /\ ret = "ok"
    /\ report = << >>
    /\ log = << >>
    /\ runs = 0
    /\ prev = NoRun
    /\ rowsStart = rows
    /\ newPrefix = << >>
    /\ last = "create"
    /\ declared = TRUE
    /\ nDecl = 1 /\ nExec = 0 /\ nRen = 0
    /\ RouteNew

NextAgain ==
    \/ \E method \in {"morph", "nullable_morphs"} :
          ColumnStatement(Statement(method, <<"m", "i">>, 0, << >>))
    \/ \E st \in ForeignStatements : ForeignStatement(st)
    \/ DropColumn("x")
    \/ ClosureReturns
    \/ \E ok \in BOOLEAN : ExecuteMigrationCall(ok)

SpecAgain == InitAgain /\ [][NextAgain]_vars

\* ------------------------------------------------------------------ the routing DSL
\* how many routes a Route collects, and how many calls are made on it before build
MaxRoutes == 2
MaxCalls == 7

\* RouteMethod to MethodSet: one bit per method, every bit for Any
MethodSetOf(method) ==
    CASE method = "get"     -> {"GET"}
      [] method = "post"    -> {"POST"}
      [] method = "patch"   -> {"PATCH"}
      [] method = "delete"  -> {"DELETE"}
      [] method = "options" -> {"OPTIONS"}
      [] method = "put"     -> {"PUT"}
      [] method = "any"     -> {"GET", "POST", "PUT", "PATCH", "DELETE", "OPTIONS"}

\* self.0 & other.0 != 0
intersects_equal(self, other) == self = other
intersects(self, other) == self \cap other # {}

\* the path an item is stored with: a '/' in front of a non-empty path that has none
route_path_as_given(path) == path
route_path(path) == IF path # << >> /\ path[1] # "/" THEN <<"/">> \o path ELSE path

\* what a call on the Route leaves alone
RouteFrame ==
    /\ UNCHANGED <<db, rows, cfgPrefix, prefix, tables, current, sql, body>>
    /\ UNCHANGED <<ret, dbStart, rowsStart, generator, debug>>
    /\ UNCHANGED runnerVars
    /\ UNCHANGED apiVars
    /\ UNCHANGED clientVars
    /\ UNCHANGED closureVars

Called(op, arg) == [op |-> op, arg |-> arg]
\* the calls made and the closures returned so far
Calls == Len(dsl)

\* route.get(path, handler), route.post(..), route.any(..): Route::add
Add(method, path) ==
    /\ pc = "route"
    /\ built.kind = "none"
    /\ Calls < MaxCalls
    /\ Len(items) < MaxRoutes
    /\ items' = Append(items, [path |-> route_path(path), name |-> << >>,
                               methods |-> MethodSetOf(method), contexts |-> ctx_stack])
    /\ dsl' = Append(dsl, Called(method, path))
    /\ UNCHANGED <<ctx_stack, built>>
    /\ RouteFrame

\* route.name(name): the last item if it has no name yet, the group being declared otherwise
\* (followed where the last route or the group being declared has no name yet)
Name(name) ==
    /\ pc = "route"
    /\ built.kind = "none"
    /\ Calls < MaxCalls
    /\ \/ items # << >> /\ items[Len(items)].name = << >>
       \/ ctx_stack # << >> /\ ctx_stack[Len(ctx_stack)].name_prefix = << >>
    /\ IF items # << >> /\ items[Len(items)].name = << >>
       THEN /\ items' = [items EXCEPT ![Len(items)].name = name]
            /\ UNCHANGED ctx_stack
       ELSE /\ ctx_stack' = IF ctx_stack # << >>
                            THEN [ctx_stack EXCEPT ![Len(ctx_stack)].name_prefix = name]
                            ELSE ctx_stack
            /\ UNCHANGED items
    /\ dsl' = Append(dsl, Called("name", name))
    /\ UNCHANGED built
    /\ RouteFrame

\* route.prefix(prefix): appended to the path prefix of the group being declared
\* (followed inside a group that has no prefix yet)
Prefix(path_prefix) ==
    /\ pc = "route"
    /\ built.kind = "none"
    /\ Calls < MaxCalls
    /\ ctx_stack # << >> /\ ctx_stack[Len(ctx_stack)].path_prefix = << >>
    /\ ctx_stack' = [ctx_stack EXCEPT ![Len(ctx_stack)].path_prefix = @ \o path_prefix]
    /\ dsl' = Append(dsl, Called("prefix", path_prefix))
    /\ UNCHANGED <<items, built>>
    /\ RouteFrame

\* route.group(f) up to the call of f: a new context on the stack
\* (followed outside any group: the groups followed are not nested)
Group ==
    /\ pc = "route"
    /\ built.kind = "none"
    /\ Calls < MaxCalls
    /\ ctx_stack = << >>
    /\ ctx_stack' = Append(ctx_stack, [path_prefix |-> << >>, name_prefix |-> << >>])
    /\ dsl' = Append(dsl, Called("group", << >>))
    /\ UNCHANGED <<items, built>>
    /\ RouteFrame

\* f returns: the context is popped
GroupReturns ==
    /\ pc = "route"
    /\ built.kind = "none"
    /\ ctx_stack # << >>
    /\ Calls < MaxCalls
    /\ ctx_stack' = SubSeq(ctx_stack, 1, Len(ctx_stack) - 1)
    /\ dsl' = Append(dsl, Called("end", << >>))
    /\ UNCHANGED <<items, built>>
    /\ RouteFrame

\* the path prefixes of the item's contexts, then its path, and a '/' in front if there is none
build_full_path(item) ==
    LET RECURSIVE pushed(_)
        pushed(contexts) == IF contexts = << >> THEN << >>
                            ELSE contexts[1].path_prefix \o pushed(Tail(contexts))
        path == pushed(item.contexts) \o item.path
    IN IF path = << >> \/ path[1] # "/" THEN <<"/">> \o path ELSE path

\* the non-empty name prefixes of the item's contexts and its name, joined with dots
\* (<< >> is None, <<name>> is Some(name))
build_full_name(item) ==
    LET RECURSIVE pushed(_, _)
        pushed(contexts, name) ==
            IF contexts = << >> THEN name
            ELSE pushed(Tail(contexts),
                        IF contexts[1].name_prefix # << >>
                        THEN (IF name # << >> THEN name \o <<".">> ELSE name) \o contexts[1].name_prefix
                        ELSE name)
        name == pushed(item.contexts, << >>)
    IN IF item.name = << >> THEN << >>
       ELSE <<(IF name # << >> THEN name \o <<".">> ELSE name) \o item.name>>

\* phase 1 of build: the first full path declared twice with a shared method, if any
RECURSIVE Validation(_, _)
Validation(list, seen_routes) ==
    IF list = << >> THEN << >>
    ELSE LET full_path == build_full_path(Head(list))
             entry == IF full_path \in DOMAIN seen_routes THEN seen_routes[full_path] ELSE {}
         IN IF intersects(entry, Head(list).methods) THEN <<full_path>>
            ELSE Validation(Tail(list),
                            (full_path :> (entry \cup Head(list).methods)) @@ seen_routes)

\* phase 2 of build: the names registered, or the first full name declared twice
RECURSIVE Assembly(_, _)
Assembly(list, names) ==
    IF list = << >> THEN [kind |-> "Ok", names |-> names, error |-> << >>]
    ELSE LET full_path == build_full_path(Head(list))
             full_name == build_full_name(Head(list))
         IN IF full_name = << >> THEN Assembly(Tail(list), names)
            ELSE IF full_name[1] \in DOMAIN names
                 THEN [kind |-> "Err", names |-> << >>, error |-> full_name[1]]
                 ELSE Assembly(Tail(list), (full_name[1] :> full_path) @@ names)

\* route.build(), called once every group closure has returned
Build ==
    /\ pc = "route"
    /\ built.kind = "none"
    /\ ctx_stack = << >>
    /\ built' = LET duplicate == Validation(items, << >>)
                IN IF duplicate # << >>
                   THEN [kind |-> "Err", names |-> << >>, error |-> duplicate[1]]
                   ELSE Assembly(items, << >>)
    /\ dsl' = Append(dsl, Called("build", << >>))
    /\ UNCHANGED <<items, ctx_stack>>
    /\ RouteFrame

InitRoute ==
    /\ db = {}
    /\ dbStart = db
    /\ cfgPrefix = << >>
    /\ prefix = cfgPrefix
    /\ prefixStart = prefix
    /\ pc = "route"
    /\ generator = "mysql"
    /\ debug = FALSE
    /\ InitIdle
    /\ InitTools

NextRoute ==
    \/ \E call \in {<<"get", <<"s">>>>, <<"post", <<"/", "s">>>>, <<"any", <<"s">>>>} :
          Add(call[1], call[2])
    \/ \E name \in {<<"a">>, <<"g">>} : Name(name)
    \/ \E path_prefix \in {<<"/", "g">>, <<"g">>} : Prefix(path_prefix)
    \/ Group
    \/ GroupReturns
    \/ Build

SpecRoute == InitRoute /\ [][NextRoute]_vars

RouteTypeOK == built.kind \in {"none", "Ok", "Err"}

\* ================================================================== claims
IsPrefix(a, b) == Len(a) <= Len(b) /\ SubSeq(b, 1, Len(a)) = a

\* the operations of run_migrations that read or write the tracking table
TrackingOps == {"repository_exists", "create_migration_table", "get_next_batch_number",
                "get_migrations_listing", "add_migrated_table"}

\* the operations invoked on units so far in this run: what, on which unit, with which batch
UnitOps ==
    LET sel == SelectSeq(log, LAMBDA e : e.unit >= 1) IN
    [k \in 1..Len(sel) |-> [op |-> sel[k].op, unit |-> sel[k].unit, batch |-> sel[k].batch]]

UnitOp(op, k, b) == [op |-> op, unit |-> k, batch |-> b]

\* the unit operations of a whole non-passive forward run, from unit k on: a unit not in
\* migration_list gets up, execute_migration, add_migrated_table(batch); a unit in
\* the list gets up alone (upWhenListed) or nothing
RECURSIVE ForwardOps(_, _)
ForwardOps(k, upWhenListed) ==
    IF k > Len(Migrations) THEN << >>
    ELSE (IF ~Contains(migration_list, Migrations[k].name)
          THEN <<UnitOp("up", k, 0), UnitOp("execute_migration", k, 0),
                 UnitOp("add_migrated_table", k, batch)>>
          ELSE IF upWhenListed THEN <<UnitOp("up", k, 0)>> ELSE << >>)
         \o ForwardOps(k + 1, upWhenListed)

InForwardTracked == runs > 0 /\ up /\ ~passive
RepeatedForward ==
    /\ InForwardTracked /\ ~fresh
    /\ prev = [up |-> TRUE, passive |-> FALSE, fresh |-> FALSE, ret |-> "ok"]

\* C1: a non-passive, non-fresh forward run that follows a successful one invokes
\* neither execute_migration nor the tracking insert (nor any other DDL), and
\* when it returns Ok it has printed the "Noting to migrate" title.
SecondRunAppliesNothing ==
    RepeatedForward =>
        /\ \A k \in 1..Len(log) :
              log[k].op \notin {"execute_migration", "add_migrated_table",
                                "create_migration_table", "drop_all_tables"}
        /\ \A k \in 1..Len(sql) : sql[k].kind \in {"SELECT"}
        /\ (pc = "done" /\ ret = "ok") => report = <<"Noting to migrate">>

SecondRunDone ==
    /\ RepeatedForward
    /\ pc = "done" /\ ret = "ok"
    /\ Len(rows) = Len(Migrations)
    /\ report = <<"Noting to migrate">>

\* C2 as stated: in a non-passive forward run the units not in the list fetched at
\* the start get up, execute_migration and the recording with the run's batch, in
\* that order, and a unit in the list gets none of the three.
ListedUnitsUntouched ==
    InForwardTracked =>
        /\ IsPrefix(UnitOps, ForwardOps(1, FALSE))
        /\ (pc = "done" /\ ret = "ok") => UnitOps = ForwardOps(1, FALSE)

\* C2 amended: up is invoked for every unit in list order; a unit not in the list
\* gets execute_migration and then the recording with the run's batch right after
\* its up, a unit in the list gets neither of the two.
ListedUnitsOnlyDeclared ==
    InForwardTracked =>
        /\ IsPrefix(UnitOps, ForwardOps(1, TRUE))
        /\ (pc = "done" /\ ret = "ok") => UnitOps = ForwardOps(1, TRUE)

OneListedOneRun ==
    /\ InForwardTracked
    /\ pc = "done" /\ ret = "ok"
    /\ migration_list = <<CreateTodos.name>>
    /\ migrated_count = 1
    /\ UnitOps = <<UnitOp("up", 1, 0), UnitOp("up", 2, 0), UnitOp("execute_migration", 2, 0),
                   UnitOp("add_migrated_table", 2, batch)>>

\* C3: a passive forward run issues no tracking-table operation, and when it has
\* returned Ok the table declared by every unit exists in the database.
PassiveRunAppliesSchema ==
    (runs > 0 /\ up /\ passive) =>
        /\ \A k \in 1..Len(log) : log[k].op \notin TrackingOps
        /\ (pc = "done" /\ ret = "ok") =>
              \A k \in 1..Len(Migrations) : (cfgPrefix \o Migrations[k].table) \in db

\* C4: after a forward run with fresh set has returned Ok, whatever the passive
\* flag, every table of the database that existed before the run was created
\* again during the run.
FreshLeavesOnlyReapplied ==
    (runs > 0 /\ up /\ fresh /\ pc = "done" /\ ret = "ok") =>
        \A t \in db \cap dbStart :
            \E k \in 1..Len(sql) : sql[k] = Stmt("CREATE TABLE", t, << >>)

\* C5: a reverse run invokes the units' down in list order and nothing else:
\* no operation on the tracking table, whatever the passive flag.
ReverseRunLeavesTrackingAlone ==
    (runs > 0 /\ ~up) =>
        /\ \A k \in 1..Len(log) : log[k].op \notin TrackingOps
        /\ IsPrefix(UnitOps, [k \in 1..Len(Migrations) |-> UnitOp("down", k, 0)])

\* C6: a failed up, down, execute_migration or recording is the last operation
\* of the run, which has returned an error; no operation of a later unit was
\* invoked, and the rows recorded before the failure (those present when the run
\* began and those inserted during it) are still in the tracking table.
FailureAbortsRun ==
    \A k \in 1..Len(log) :
        (log[k].unit >= 1 /\ ~log[k].ok) =>
            /\ k = Len(log)
            /\ pc = "done" /\ ret \in {"err", "InvalidTable"}
            /\ \A j \in 1..Len(log) : log[j].unit <= log[k].unit
            /\ IsPrefix(rowsStart, rows)
            /\ \A j \in 1..Len(log) :
                  (log[j].op = "add_migrated_table" /\ log[j].ok) =>
                      \E r \in 1..Len(rows) :
                          rows[r] = [migration |-> Migrations[log[j].unit].name,
                                     batch |-> log[j].batch]

SecondUnitFailsAfterFirstRecorded ==
    /\ pc = "done" /\ ret = "err"
    /\ Len(log) > 0
    /\ log[Len(log)] = Op("execute_migration", 2, FALSE, 0)
    /\ \E j \in 1..Len(log) : log[j] = Op("add_migrated_table", 1, TRUE, batch)
    /\ Len(rows) = Len(rowsStart) + 1

\* C7: once execute_migration has returned, with Ok or with an error, the
\* Schema holds no current table, so that a further execute_migration without a
\* declaration in between would find none.
CurrentDiscardedAfterExecute ==
    (pc = "api" /\ last = "execute_migration") => ~current.some

\* C8: execute_migration on a Schema on which neither create nor table was ever
\* invoked returns InvalidTable and sends no statement to the client.
UndeclaredExecuteIsInvalidTable ==
    (pc = "api" /\ last = "execute_migration" /\ ~declared) =>
        /\ ret = "InvalidTable"
        /\ sql = << >>
        /\ db = {}

UndeclaredExecuted ==
    /\ pc = "api" /\ last = "execute_migration" /\ ~declared
    /\ nExec = 2
    /\ ret = "InvalidTable"

\* C9: the registry holds one entry for every logical name declared, and its
\* columns are the columns of all declarations of that name, in declaration
\* order (so their number is the sum of the numbers contributed).
RegistryAccumulatesColumns ==
    pc = "api" =>
        /\ DOMAIN tables = DOMAIN contrib
        /\ \A name \in DOMAIN contrib :
              /\ tables[name].columns = contrib[name]
              /\ Len(tables[name].columns) = Len(contrib[name])

TwoDeclarationsMerged ==
    /\ pc = "api" /\ nDecl = 2
    /\ \E name \in DOMAIN tables :
          /\ DOMAIN tables = {name}
          /\ Len(tables[name].columns) = 3
          /\ Len(current.table.columns) = 1

\* the part of a table name after the prefix
Rest(table, p) == SubSeq(table, Len(p) + 1, Len(table))

\* C10: after rename_prefix(new) has returned Ok on a Schema whose prefix was P
\* (the empty prefix included), every table that was named P+rest is named
\* new+rest, no table is left under its old name, and the Schema's prefix is new.
PrefixRenamed ==
    (pc = "db" /\ last = "rename_prefix" /\ ret = "ok") =>
        /\ prefix = newPrefix
        /\ \A t \in dbStart :
              StartsWith(t, prefixStart) =>
                  /\ (newPrefix \o Rest(t, prefixStart)) \in db
                  /\ (newPrefix # prefixStart) => t \notin db

\* the strict forms, the try_ forms and the destructive operations
StrictForms == {"get_tables", "get_column_listing", "get_views", "get_foreign_keys"}
TryForms == {"try_get_tables", "try_get_column_listing", "try_get_views", "try_get_foreign_keys"}
DestructiveOps == {"drop_table", "drop_all_tables", "drop_all_views", "drop_database_if_exists"}

\* C11: when the client fails, a strict form returns Err with the client's error and
\* a try_ form returns the empty list; when it succeeds, both return the list the
\* client gave; the error is handed to the logger when and only when debug is set.
IntrospectionPairs ==
    (pc = "client" /\ last \in StrictForms \cup TryForms) =>
        /\ (last \in StrictForms /\ ~answer.ok) => result = Result("Err", << >>, answer.err)
        /\ (last \in TryForms /\ ~answer.ok) => result = Result("Vec", << >>, "")
        /\ answer.ok => /\ result.list = answer.list
                        /\ result.kind = IF last \in StrictForms THEN "Ok" ELSE "Vec"
        /\ errors = IF ~answer.ok /\ debug THEN <<answer.err>> ELSE << >>

TryFormSwallowedAndLogged ==
    /\ pc = "client" /\ last = "try_get_column_listing"
    /\ debug /\ ~answer.ok
    /\ result.list = << >>
    /\ errors = <<"Sqlx(Database)">>
    /\ Len(sql) = 2

\* C12: a destructive operation whose client call failed returns an error value that
\* carries the client's error.
DestructivePropagates ==
    (pc = "client" /\ last \in DestructiveOps /\ ~answer.ok) =>
        /\ result.kind = "Err"
        /\ result.err = answer.err

\* the column statements and the foreign statements of the closure, in call order
ColumnCalls == SelectSeq(calls, LAMBDA st : st.method \in ColumnMethods)
KeyCalls == SelectSeq(calls, LAMBDA st : st.method = "foreign")

\* one of the modifiers ops is chained on the statement
Chained(st, ops) == \E k \in 1..Len(st.mods) : st.mods[k].op \in ops

\* the column is the one the statement's constructor makes, with every attribute
\* its chained modifiers set and no other
CarriesColumn(column, st) ==
    /\ column.name = PendingColumn(st).name
    /\ column.data_type = PendingColumn(st).data_type
    /\ column.option = PendingColumn(st).option
    /\ column.nullable = Chained(st, {"nullable"})
    /\ column.unique = Chained(st, {"unique"})
    /\ column.index = Chained(st, {"index"})
    /\ column.unsigned = Chained(st, {"unsigned"})
    /\ column.change = Chained(st, {"change"})
    /\ \A k \in 1..Len(st.mods) :
          /\ st.mods[k].op = "comment" => column.comment = st.mods[k].arg
          /\ st.mods[k].op = "collation" => column.collation = st.mods[k].arg
          /\ st.mods[k].op \in {"default_bool", "default_int", "default_str"} =>
                column.default = st.mods[k].arg
    /\ ~Chained(st, {"comment"}) => column.comment = ""
    /\ ~Chained(st, {"collation"}) => column.collation = ""
    /\ ~Chained(st, {"default_bool", "default_int", "default_str"}) => column.default = "None"

\* the same for a key and a foreign statement
CarriesKey(key, st) ==
    /\ key.column_name = st.name
    /\ key.on_delete = Chained(st, {"cascade_on_delete"})
    /\ key.on_update = Chained(st, {"cascade_on_update"})
    /\ \A k \in 1..Len(st.mods) :
          /\ st.mods[k].op = "on" => key.foreign_table = st.mods[k].arg
          /\ st.mods[k].op = "reference" => key.referenced_column = st.mods[k].arg
    /\ ~Chained(st, {"on"}) => key.foreign_table = ""
    /\ ~Chained(st, {"reference"}) => key.referenced_column = ""

\* C13: at every statement boundary of a declaration closure, and when the closure
\* has returned, the table's column sequence holds exactly one column per
\* column-builder call, in call order, each carrying every attribute its chained
\* modifiers set; the same for foreign() and the foreign-key sequence; the table
\* the Schema keeps as current is that table.
BuilderCommits ==
    (pc \in {"closure", "api"} /\ declName # << >>) =>
        /\ Len(pending.columns) = Len(ColumnCalls)
        /\ \A k \in 1..Len(ColumnCalls) : CarriesColumn(pending.columns[k], ColumnCalls[k])
        /\ Len(pending.foreign_keys) = Len(KeyCalls)
        /\ \A k \in 1..Len(KeyCalls) : CarriesKey(pending.foreign_keys[k], KeyCalls[k])
        /\ (pc = "api") =>
              /\ current.some
              /\ current.table.columns = pending.columns
              /\ current.table.foreign_keys = pending.foreign_keys

ThreeStatementsCommitted ==
    /\ pc = "api" /\ last = "create"
    /\ Len(calls) = 3
    /\ calls[1].method = "string" /\ calls[2].method = "foreign" /\ calls[3].method = "boolean"
    /\ Len(calls[2].mods) = 3
    /\ Len(current.table.columns) = 2
    /\ current.table.columns[1].unique
    /\ current.table.columns[2].comment = "flag"
    /\ current.table.columns[2].default = "Bool(true)"
    /\ Len(current.table.foreign_keys) = 1
    /\ current.table.foreign_keys[1].on_delete
    /\ current.table.foreign_keys[1].foreign_table = "users"

\* validate() is one of the statements of the closure
ValidateCalled == \E k \in 1..Len(calls) : calls[k].method = "validate"

\* C14: right after validate() the table (columns, foreign keys, drop_columns,
\* comment, action) is what it was before the call, whatever validate flagged; and
\* an execute_migration that follows generates a clause for every column of the
\* table, the flagged ones included, and sends the statement made of them, which
\* takes effect when the client executes it.
ValidateKeepsDeclaration ==
    /\ (pc = "closure" /\ calls # << >> /\ calls[Len(calls)].method = "validate") =>
          /\ pending = before
          /\ flagged = Printed(before)
    /\ (pc = "api" /\ last = "execute_migration" /\ current.some /\ ValidateCalled) =>
          /\ \A k \in 1..Len(flagged.columns) :
                \E j \in 1..Len(current.table.columns) :
                    current.table.columns[j] = flagged.columns[k]
          /\ Len(body.body) = Len(current.table.columns) + Len(current.table.drop_columns)
          /\ \A k \in 1..Len(current.table.columns) :
                /\ body.body[k] = generator_column(current.table.columns[k], current.table.name,
                                                   current.table.action).column_sql
                /\ body.body[k].type # ""
          /\ sql # << >>
          /\ sql[Len(sql)] = table_sql(current.table)
          /\ (ret = "ok") => db = Applied(dbStart, table_sql(current.table))

InvalidColumnExecuted ==
    /\ pc = "api" /\ last = "execute_migration" /\ ret = "ok"
    /\ Len(calls) = 2
    /\ calls[2].method = "validate"
    /\ Len(flagged.columns) = 1
    /\ flagged.columns[1].data_type = "DTString"
    /\ flagged.columns[1].option = Length(300)
    /\ flagged.columns[1].unique
    /\ current.table.action = "Create"
    /\ Len(body.body) = 1
    /\ body.body[1].len = 300
    /\ current.table.name \in db

\* the column breaks one of the four rules
BreaksRule(column) ==
    \/ /\ column.data_type \in {"DTString", "DTText", "DTTinyText", "DTMediumText",
                                "DTLongText", "DTJson"}
       /\ column.unsigned
    \/ /\ column.data_type = "DTString"
       /\ column.option.kind = "Length"
       /\ column.option.n > IndexableLen
       /\ (column.unique \/ column.index)
    \/ column.data_type = "DTNone"
    \/ column.data_type = "DTBoolean" /\ column.unique

KeyClause(k) == body.foot[Len(body.foot) - Len(current.table.foreign_keys) + k]

\* C16: the constraint clause generated for a foreign key has ON DELETE CASCADE if
\* and only if the key's on_delete is true, and ON UPDATE CASCADE if and only if
\* its on_update is true, under both generators.
CascadeClauses ==
    (pc = "api" /\ last = "execute_migration" /\ current.some) =>
        \A k \in 1..Len(current.table.foreign_keys) :
            /\ KeyClause(k).kind = "FOREIGN KEY"
            /\ KeyClause(k).on_delete_cascade = current.table.foreign_keys[k].on_delete
            /\ KeyClause(k).on_update_cascade = current.table.foreign_keys[k].on_update

\* C17: among the fragments generated for an Id column there is a NOT NULL
\* declaration, a primary key and the auto-increment, whatever modifiers the
\* column carries, under both generators.
IdIsPrimaryKey ==
    (pc = "api" /\ last = "execute_migration" /\ current.some) =>
        \A k \in 1..Len(current.table.columns) :
            (current.table.columns[k].data_type = "DTId") =>
                /\ body.body[k].null = "NOT NULL"
                /\ \E j \in 1..Len(body.foot) :
                      /\ body.foot[j].kind = "PRIMARY KEY"
                      /\ body.foot[j].column = "id"
                      /\ (body.body[k].auto_increment \/ body.foot[j].auto_increment)

\* C18: a table whose action is Create has an empty drop_columns list, whatever the
\* closure calls on it: the table the closure is working on, and the table the
\* Schema keeps as current.
CreateHasNoDropColumns ==
    /\ (pending.action = "Create") => pending.drop_columns = << >>
    /\ (current.some /\ current.table.action = "Create") => current.table.drop_columns = << >>

\* the tracking rows inserted since the run began: one per successful
\* add_migrated_table of the run, the last ones of the table
Inserted == {m \in 1..Len(log) : log[m].op = "add_migrated_table" /\ log[m].ok}
RunRows == (Len(rows) - Cardinality(Inserted) + 1)..Len(rows)

\* C19: all the tracking rows inserted during one run carry the same batch number,
\* the value the run obtained from its one successful get_next_batch_number, which
\* came before the first operation on a unit.
OneBatchPerRun ==
    (runs > 0) =>
        /\ Cardinality(Inserted) = migrated_count
        /\ Cardinality(Inserted) <= Len(rows)
        /\ \A k \in RunRows : rows[k].batch = batch
        /\ (Inserted # {}) =>
              \E j \in 1..Len(log) :
                  /\ log[j] = Op("get_next_batch_number", 0, TRUE, batch)
                  /\ \A m \in 1..Len(log) :
                        /\ (log[m].op = "get_next_batch_number") => m = j
                        /\ (log[m].unit >= 1) => j < m

TwoRowsOneBatch ==
    /\ pc = "done" /\ ret = "ok"
    /\ runs = 2 /\ prev.ret # "ok"
    /\ MigrationsTable \in dbStart
    /\ rowsStart = << >>
    /\ migrated_count = 2
    /\ Len(rows) = 2
    /\ rows[1].batch = batch
    /\ rows[2].batch = batch
    /\ rows[1].migration # rows[2].migration

\* C20: the tracking table holds each migration name at most once, after any
\* sequence of runs (failed or successful, fresh or not): the runner asks for the
\* insert of a name at most once in a run, and only when the listing it fetched at
\* the start of the run does not hold the name.
NamesTrackedOnce ==
    /\ \A j, k \in 1..Len(rows) : (rows[j].migration = rows[k].migration) => j = k
    /\ \A m \in 1..Len(log) :
          (log[m].op = "add_migrated_table") =>
              /\ ~Contains(migration_list, Migrations[log[m].unit].name)
              /\ \A n \in 1..Len(log) :
                    (log[n].op = "add_migrated_table" /\ log[n].unit = log[m].unit) => n = m

BothNamesOverThreeRuns ==
    /\ pc = "done" /\ ret = "ok"
    /\ runs = 3 /\ up /\ ~passive /\ ~fresh
    /\ prev.up /\ ~prev.passive /\ prev.ret # "ok"
    /\ Len(rowsStart) = 1
    /\ Len(rows) = 2
    /\ migrated_count = 1
    /\ rows[1].migration = CreateTodos.name
    /\ rows[2].migration = CreateUsers.name

\* C29: the constraint clause generated for a foreign key constrains the key's
\* column_name and references the column referenced_column of the table
\* foreign_table, under both generators, also when referenced_column differs from
\* column_name.
KeyReferences ==
    (pc = "api" /\ last = "execute_migration" /\ current.some) =>
        \A k \in 1..Len(current.table.foreign_keys) :
            /\ KeyClause(k).column = current.table.foreign_keys[k].column_name
            /\ KeyClause(k).foreign_table = current.table.foreign_keys[k].foreign_table
            /\ KeyClause(k).referenced_column = current.table.foreign_keys[k].referenced_column

\* C24: the Table that create/table build is named with the prefix of the Schema
\* followed by the logical name, the name fix_table_name gives the introspection
\* and destructive operations, also after rename_prefix has changed the prefix.
DeclaredUnderSchemaPrefix ==
    /\ (pc = "closure") => pending.name = fix_table_name(declName)
    /\ (pc = "api" /\ current.some) => current.table.name = fix_table_name(declName)

\* C28: when rename_prefix has returned Err, the prefix of the Schema is what it
\* was before the call and the database holds the same table names as before the
\* call.
RenameErrChangesNothing ==
    (pc = "db" /\ last = "rename_prefix" /\ ret = "err") =>
        /\ prefix = prefixStart
        /\ db = dbStart

\* the names the closure passed to drop_column, in call order
DropCalls ==
    LET drops == SelectSeq(calls, LAMBDA st : st.method = "drop_column")
    IN  [k \in 1..Len(drops) |-> drops[k].name]

\* C27: when a logical name already in the registry has been declared again, the
\* current table holds exactly the columns, foreign keys and drop_columns the
\* closure of the latest declaration committed, while the registry entry holds the
\* columns of the earlier declarations followed by them; the execute_migration that
\* follows generates clauses for the current table only.
LatestDeclarationIsCurrent ==
    (pc = "api" /\ nDecl >= 2) =>
        /\ current.some
        /\ Len(current.table.columns) = Len(ColumnCalls)
        /\ \A k \in 1..Len(ColumnCalls) : CarriesColumn(current.table.columns[k], ColumnCalls[k])
        /\ Len(current.table.foreign_keys) = Len(KeyCalls)
        /\ \A k \in 1..Len(KeyCalls) : CarriesKey(current.table.foreign_keys[k], KeyCalls[k])
        /\ current.table.drop_columns = DropCalls
        /\ tables[declName].columns = contrib[declName]
        /\ Len(tables[declName].columns) >= Len(current.table.columns)
        /\ SubSeq(tables[declName].columns,
                  Len(tables[declName].columns) - Len(current.table.columns) + 1,
                  Len(tables[declName].columns)) = current.table.columns
        /\ (last = "execute_migration") =>
              /\ Len(body.body) = Len(ColumnCalls) + Len(DropCalls)
              /\ sql[Len(sql)] = table_sql(current.table)

RedeclaredShorter ==
    /\ pc = "api" /\ last = "execute_migration" /\ ret = "ok"
    /\ nDecl = 2
    /\ Len(calls) = 3
    /\ Len(current.table.columns) = 1
    /\ Len(current.table.foreign_keys) = 1
    /\ current.table.drop_columns = <<"x">>
    /\ Len(tables[declName].columns) = 3
    /\ Len(body.body) = 2

\* C26: when a non-passive forward run has returned, with Ok or with Err, every
\* unit whose execute_migration succeeded during the run has its name in the
\* tracking table.
ExecutedUnitsRecorded ==
    (pc = "done" /\ up /\ ~passive) =>
        \A m \in 1..Len(log) :
            (log[m].op = "execute_migration" /\ log[m].ok) =>
                Contains(Listing(rows), Migrations[log[m].unit].name)

\* C30: the column a nullable_morphs statement commits has its nullable flag set,
\* and is the column morph commits for the same arguments but for that flag.
NullableMorphsIsNullable ==
    \A k \in 1..Len(ColumnCalls) :
        (ColumnCalls[k].method = "nullable_morphs" /\ k <= Len(pending.columns)) =>
            /\ pending.columns[k].nullable
            /\ pending.columns[k] =
                  [Chain(PendingColumn([ColumnCalls[k] EXCEPT !.method = "morph"]),
                         ColumnCalls[k].mods) EXCEPT !.nullable = TRUE]

\* C21: fetch_numbers of either client returns Ok with the integers of the first
\* column of the rows the query returned, in row order (the empty sequence for no
\* row), and returns Err exactly when the query failed.
FetchNumbersAgree ==
    (pc = "client" /\ last = "fetch_numbers") =>
        /\ answer.ok =>
              result = Result("Ok", [k \in 1..Len(answer.list) |-> answer.list[k][1]], "")
        /\ (result.kind = "Err") <=> ~answer.ok
        /\ ~answer.ok => result.err = answer.err

\* ------------------------------------------------------------------ C25
\* a group whose closure is running and in which nothing but name and prefix calls were made,
\* the last of them a name call
NamedFresh(g) ==
    /\ dsl[g].op = "group"
    /\ g < Len(dsl)
    /\ \A k \in (g + 1)..Len(dsl) : dsl[k].op \in {"name", "prefix"}
    /\ dsl[Len(dsl)].op = "name"

\* C25: Route::name called inside a group closure before any route has been declared in that
\* group sets the name prefix of that group, whatever routes, named or unnamed, were declared
\* before the group was opened
NameInFreshGroupSetsPrefix ==
    \A g \in DOMAIN dsl :
        NamedFresh(g) =>
            /\ ctx_stack # << >>
            /\ ctx_stack[Len(ctx_stack)].name_prefix = dsl[Len(dsl)].arg

\* ------------------------------------------------------------------ C23
\* the add calls made, in order: the k-th is the call that collected items[k]
Declared == SelectSeq(dsl, LAMBDA call : call.op \notin {"name", "prefix", "group", "end", "build"})
Named == {k \in DOMAIN items : items[k].name # << >>}

\* two collected routes resolve to the same full path and share a method
SamePathSharedMethod ==
    \E j, k \in DOMAIN items :
        /\ j < k
        /\ build_full_path(items[j]) = build_full_path(items[k])
        /\ items[j].methods \cap items[k].methods # {}

\* two named routes resolve to the same full name
SameFullName ==
    \E j, k \in Named : j < k /\ build_full_name(items[j]) = build_full_name(items[k])

RECURSIVE PathPrefixOf(_)
PathPrefixOf(contexts) ==
    IF contexts = << >> THEN << >>
    ELSE contexts[1].path_prefix \o PathPrefixOf(Tail(contexts))

\* N: the name prefixes that are set among them, joined with dots
RECURSIVE NamePrefixOf(_)
NamePrefixOf(contexts) ==
    IF contexts = << >> THEN << >>
    ELSE LET rest == NamePrefixOf(Tail(contexts))
         IN IF contexts[1].name_prefix = << >> THEN rest
            ELSE IF rest = << >> THEN contexts[1].name_prefix
            ELSE contexts[1].name_prefix \o <<".">> \o rest

\* the route path as written in the call, a '/' put in front of a non-empty one that has none
Slashed(path) == IF path # << >> /\ path[1] # "/" THEN <<"/">> \o path ELSE path

\* N + '.' + route-name, the route name alone where no name prefix is set
NameUnder(k) ==
    LET N == NamePrefixOf(items[k].contexts)
    IN IF N = << >> THEN items[k].name ELSE N \o <<".">> \o items[k].name

====
